---- MODULE Spec2Model ----
(***************************************************************************)
(* StencilForge: Gerber layers -> 2D stencil region -> STL mesh.           *)
(*                                                                         *)
(* The model follows the repository's components:                          *)
(*   - geometry/outline.py   RobustOutlineExtractor, OutlineBuilder        *)
(*   - pipeline/qfn.py       QFN pad detection and regeneration            *)
(*   - pipeline/core.py      generate_stencil                              *)
(*   - pipeline/geometry.py  standard extrusion                            *)
(*   - pipeline/engine.py    mesh engines, watertight rebuild, voxel pitch *)
(*                                                                         *)
(* Each component has one state variable (a record with a position `pc`)   *)
(* and one specification; a component that a specification does not run    *)
(* stays at Idle.                                                          *)
(*                                                                         *)
(* Lengths are integers: outline coordinates count raw units of 0.025 mm.  *)
(***************************************************************************)
EXTENDS Integers, Sequences, FiniteSets, TLC

VARIABLES
    rx,     \* RobustOutlineExtractor.extract: segments through snap/dedupe/bridge
    ob,     \* OutlineBuilder._outline_from_primitives
    qf,     \* regenerate_qfn_paste
    gs,     \* generate_stencil
    ex,     \* extrusion of one polygon
    en,     \* model engine export
    vp,     \* _adaptive_voxel_pitch
    bb,     \* BackendBridge: runJob, its worker thread, stopJob
    sv,     \* GerberGeometryService._load_layer in concurrent requests
    cf,     \* StencilConfig.validate
    un,     \* GerberGeometryService.load_outline_geometry, units of the layer
    cl      \* OutlineBuilder._build_closed_loops

vars == <<rx, ob, qf, gs, ex, en, vp, bb, sv, cf, un, cl>>

Idle == [pc |-> "idle"]

\* ------------------------------------------------------------------------
\* Generic helpers
\* ------------------------------------------------------------------------
Range(s) == {s[i] : i \in DOMAIN s}

Min2(a, b) == IF a <= b THEN a ELSE b

Max2(a, b) == IF a >= b THEN a ELSE b

MinOf(S) == CHOOSE m \in S : \A x \in S : m <= x

MaxOf(S) == CHOOSE m \in S : \A x \in S : m >= x

RECURSIVE SumSeq(_)
SumSeq(s) == IF s = <<>> THEN 0 ELSE Head(s) + SumSeq(Tail(s))

\* All sequences over S of length 1..n.
RECURSIVE SeqsUpTo(_, _)
SeqsUpTo(S, n) ==
    IF n = 0 THEN {}
    ELSE LET shorter == SeqsUpTo(S, n - 1)
         IN  {<<x>> : x \in S} \cup shorter
             \cup {Append(s, x) : s \in {t \in shorter : Len(t) = n - 1}, x \in S}

\* ========================================================================
\* geometry/outline.py -- RobustOutlineExtractor: snap, dedupe, bridge gaps
\* ========================================================================

\* Bound: the number of input segments of one reconstruction.
MaxSegs == 3

\* outline_snap_eps_mm = 0.05 mm, in raw units of 0.025 mm.
eps_mm == 2

\* gap_bridge_max_links of RobustOutlineConfig.
gap_bridge_max_links == 200

Pt(x, y) == <<x, y>>

\* The segments a reconstruction is given (raw units). A--B leave a gap of
\* 0.05 mm, B--D a gap of 0.5 mm; E starts where A ends; F is E with float
\* noise; G is shorter than the grid; H is A reversed; K ends 0.1 mm from D's
\* start and L lies 0.05 mm above A's end.
SegmentPool ==
    { <<Pt(0, 0),   Pt(40, 0)>>,      \* A
      <<Pt(42, 0),  Pt(80, 0)>>,      \* B
      <<Pt(100, 0), Pt(140, 0)>>,     \* D
      <<Pt(40, 0),  Pt(40, 40)>>,     \* E
      <<Pt(41, 1),  Pt(40, 40)>>,     \* F
      <<Pt(0, 0),   Pt(1, 0)>>,       \* G
      <<Pt(40, 0),  Pt(0, 0)>>,       \* H
      <<Pt(96, 0),  Pt(96, 40)>>,     \* K
      <<Pt(40, 2),  Pt(80, 40)>> }    \* L

\* round(): Python rounds halves to the even neighbour.
py_round(v, unit) ==
    LET q == v \div unit
        r == v % unit
    IN  IF 2 * r < unit THEN q
        ELSE IF 2 * r > unit THEN q + 1
        ELSE IF q % 2 = 0 THEN q ELSE q + 1

snap_point(p, eps) == <<py_round(p[1], eps) * eps, py_round(p[2], eps) * eps>>

snap_segments(segs, eps) ==
    [i \in DOMAIN segs |-> <<snap_point(segs[i][1], eps), snap_point(segs[i][2], eps)>>]

\* Squared length; the code compares square roots, which order the same way.
segment_length2(p1, p2) ==
    (p1[1] - p2[1]) * (p1[1] - p2[1]) + (p1[2] - p2[2]) * (p1[2] - p2[2])

\* Python's tuple order p1 <= p2.
point_le(p1, p2) == p1[1] < p2[1] \/ (p1[1] = p2[1] /\ p1[2] <= p2[2])

segment_key(s) == IF point_le(s[1], s[2]) THEN s ELSE <<s[2], s[1]>>

\* min_len = eps * min_seg_len_scale (0.5): length < eps / 2.
RECURSIVE filter_and_dedupe_segments(_, _, _, _)
filter_and_dedupe_segments(segs, eps, seen, deduped) ==
    IF segs = <<>> THEN deduped
    ELSE LET s == Head(segs)
             key == segment_key(s)
         IN  IF 4 * segment_length2(s[1], s[2]) < eps * eps
             THEN filter_and_dedupe_segments(Tail(segs), eps, seen, deduped)
             ELSE IF key \in seen
             THEN filter_and_dedupe_segments(Tail(segs), eps, seen, deduped)
             ELSE filter_and_dedupe_segments(Tail(segs), eps, seen \cup {key},
                                             Append(deduped, s))

\* endpoints: p1, p2 of every segment, in order.
segment_endpoints(segs) ==
    [k \in 1..(2 * Len(segs)) |-> IF k % 2 = 1 THEN segs[(k + 1) \div 2][1]
                                   ELSE segs[k \div 2][2]]

\* nearest[i]: the first index j # i at the least distance (strict <).
nearest_endpoint(endpoints, i) ==
    LET others == DOMAIN endpoints \ {i}
        d(j) == segment_length2(endpoints[i], endpoints[j])
        best == MinOf({d(j) : j \in others})
        idx == MinOf({j \in others : d(j) = best})
    IN  [idx |-> idx, dist2 |-> best]

nearest_table(endpoints) == [i \in DOMAIN endpoints |-> nearest_endpoint(endpoints, i)]

\* Mutant: accepts a pair as soon as one side is near enough.
bridge_accepts_one_sided(nearest, i, used, tol) ==
    LET j == nearest[i].idx
    IN  /\ i \notin used
        /\ j \notin used
        /\ nearest[i].dist2 <= tol * tol

\* The tests of the bridging loop on endpoint i (its `continue`s negated).
\* `key in used` compares a point pair with indices and never holds.
bridge_accepts(nearest, i, used, tol) ==
    LET j == nearest[i].idx
    IN  /\ i \notin used
        /\ j \notin used
        /\ nearest[i].dist2 <= tol * tol
        /\ nearest[j].idx = i
        /\ nearest[j].dist2 <= tol * tol

RECURSIVE bridge_loop(_, _, _, _, _, _, _)
bridge_loop(endpoints, nearest, i, used, bridged, tol, max_links) ==
    IF i > Len(endpoints) THEN bridged
    ELSE IF ~bridge_accepts(nearest, i, used, tol)
    THEN bridge_loop(endpoints, nearest, i + 1, used, bridged, tol, max_links)
    ELSE LET j == nearest[i].idx
             more == Append(bridged, <<endpoints[i], endpoints[j]>>)
         IN  IF max_links >= 0 /\ Len(more) >= max_links
             THEN more
             ELSE bridge_loop(endpoints, nearest, i + 1, used \cup {i, j}, more,
                              tol, max_links)

\* _bridge_gaps: the synthetic segments (the result is segments + bridged).
bridge_gaps(segs, tol, max_links) ==
    IF segs = <<>> THEN <<>>
    ELSE LET endpoints == segment_endpoints(segs)
         IN  bridge_loop(endpoints, nearest_table(endpoints), 1, {}, <<>>, tol, max_links)

\* Mutant: a polygon smaller than any candidate.
choose_below_smallest(polygons) == IF polygons = {} THEN 0 ELSE MinOf(polygons) - 1

\* _choose_largest_polygon, over the areas of the polygons (0 for None).
choose_largest_polygon(polygons) == IF polygons = {} THEN 0 ELSE MaxOf(polygons)

\* A message without the segment counts.
format_error_bare(reason, cfg, debug) ==
    [reason |-> reason, eps_mm |-> eps_mm, arc_err |-> cfg.arc_max_chord_error_mm,
     raw |-> -1, deduped |-> -1, fallback |-> cfg.use_buffer_fallback]

\* _format_error: the fields the message is formatted from.
format_error(reason, cfg, debug) ==
    [reason |-> reason, eps_mm |-> eps_mm, arc_err |-> cfg.arc_max_chord_error_mm,
     raw |-> debug.raw_segments_count, deduped |-> debug.deduped_segments_count,
     fallback |-> cfg.use_buffer_fallback]

NoMessage ==
    [reason |-> "none", eps_mm |-> 0, arc_err |-> 0, raw |-> -1, deduped |-> -1,
     fallback |-> FALSE]

\* What extract gives its caller: a polygon of some area, or a ValueError.
RxReturn(area) == [kind |-> "polygon", area |-> area, message |-> NoMessage]

RxValueError(reason) ==
    [kind |-> "ValueError", area |-> 0, message |-> format_error(reason, rx, rx.debug)]

\* -1 stands for a debug entry that is not set.
RxInit ==
    /\ \E segs \in SeqsUpTo(SegmentPool, MaxSegs), gap \in {0, 4}, cap \in {1, gap_bridge_max_links},
          use_buffer_fallback \in BOOLEAN :
          rx = [pc |-> "raw", segments |-> segs, deduped |-> <<>>, bridged |-> <<>>,
                gap_bridge_mm |-> gap, max_links |-> cap,
                arc_max_chord_error_mm |-> 1, use_buffer_fallback |-> use_buffer_fallback,
                debug |-> [raw_segments_count |-> -1, deduped_segments_count |-> -1],
                used_fallback |-> FALSE, poly_exc |-> "none",
                result |-> [kind |-> "none", area |-> 0, message |-> NoMessage]]
    /\ ob = Idle /\ qf = Idle /\ gs = Idle /\ ex = Idle /\ en = Idle /\ vp = Idle /\ bb = Idle /\ sv = Idle /\ cf = Idle /\ un = Idle /\ cl = Idle

RxSnap ==
    /\ rx.pc = "raw"
    /\ rx' = [rx EXCEPT !.pc = "snapped", !.segments = snap_segments(rx.segments, eps_mm),
                        !.debug.raw_segments_count = Len(rx.segments)]
    /\ UNCHANGED <<ob, qf, gs, ex, en, vp, bb, sv, cf, un, cl>>

RxDedupe ==
    /\ rx.pc = "snapped"
    /\ LET d == filter_and_dedupe_segments(rx.segments, eps_mm, {}, <<>>)
       IN  rx' = [rx EXCEPT !.pc = "deduped", !.segments = d, !.deduped = d,
                            !.debug.deduped_segments_count = Len(d)]
    /\ UNCHANGED <<ob, qf, gs, ex, en, vp, bb, sv, cf, un, cl>>

\* extract: `if self.cfg.gap_bridge_mm > 0: segments, bridged = self._bridge_gaps(...)`
RxBridge ==
    /\ rx.pc = "deduped"
    /\ LET b == IF rx.gap_bridge_mm > 0
                THEN bridge_gaps(rx.segments, rx.gap_bridge_mm, rx.max_links)
                ELSE <<>>
       IN  rx' = [rx EXCEPT !.pc = "bridged", !.segments = rx.segments \o b, !.bridged = b]
    /\ UNCHANGED <<ob, qf, gs, ex, en, vp, bb, sv, cf, un, cl>>

\* extract, lines 77-112. polygonize raises or gives the faces the segments
\* enclose (at least three segments for a face); the buffer fallback raises
\* or gives the thin region around the segments, a valid polygon; buffer(0)
\* of an invalid face gives a polygon or nothing. poly_exc is the exception
\* kept for the message, used_fallback the local of that name.
RxPolygonize ==
    /\ rx.pc = "bridged"
    /\ IF rx.segments = <<>>
       THEN rx' = [rx EXCEPT !.pc = "done",
                             !.result = RxValueError("no segments after filtering")]
       ELSE \E faces \in {{}, {12}, {12, 4}}, polygonize_raises \in BOOLEAN,
               fallback_raises \in BOOLEAN, is_valid \in BOOLEAN, fixed \in {0, 1} :
               /\ faces # {} => Len(rx.segments) >= 3 /\ ~polygonize_raises
               /\ LET try_fallback == faces = {} /\ rx.use_buffer_fallback
                      used_fallback == try_fallback /\ ~fallback_raises
                      polygons == IF used_fallback THEN {1} ELSE faces
                      largest == choose_largest_polygon(polygons)
                      poly == IF is_valid \/ used_fallback THEN largest ELSE fixed * largest
                  IN  rx' = [rx EXCEPT
                                !.pc = "done",
                                !.used_fallback = used_fallback,
                                !.poly_exc = IF try_fallback /\ fallback_raises THEN "fallback"
                                             ELSE IF polygonize_raises THEN "polygonize"
                                             ELSE "none",
                                !.result =
                                    IF polygons = {}
                                    THEN RxValueError("polygonize produced no polygons")
                                    ELSE IF poly <= 0
                                    THEN RxValueError("invalid polygon area")
                                    ELSE RxReturn(poly)]
    /\ UNCHANGED <<ob, qf, gs, ex, en, vp, bb, sv, cf, un, cl>>

RxNext == RxSnap \/ RxDedupe \/ RxBridge \/ RxPolygonize

SpecExtract == RxInit /\ [][RxNext]_vars

\* ========================================================================
\* geometry/outline.py -- OutlineBuilder._outline_from_primitives
\* ========================================================================
\* A 2D region is the set of the faces it covers, out of the faces into which
\* the candidate loops cut the plane; every face has an area (mm^2):
\*   O: 6 x 6 square, M: 4 x 4 square inside O, I: 2 x 2 square inside M,
\*   J: 1 x 1 square inside I, S: 1 x 1 island inside O beside M,
\*   X: 2 x 2 square outside O.

\* Bound: the number of closed loops of one outline layer.
MaxLoops == 3

FaceArea ==
    [ring |-> 19, mid |-> 12, inn |-> 3, core |-> 1, isl |-> 1, ext |-> 4, trace |-> 2]

PolyO == {"ring", "mid", "inn", "core", "isl"}
PolyM == {"mid", "inn", "core"}
PolyI == {"inn", "core"}
PolyJ == {"core"}
PolyS == {"isl"}
PolyX == {"ext"}

LoopPool == {PolyO, PolyM, PolyI, PolyJ, PolyS, PolyX}

\* What the drawn traces themselves cover (_primitives_to_geometry).
TraceGeom == {"trace"}

RECURSIVE region_area(_)
region_area(g) ==
    IF g = {} THEN 0
    ELSE LET f == CHOOSE f \in g : TRUE IN FaceArea[f] + region_area(g \ {f})

\* poly.representative_point(): some point inside the polygon.
representative_point(poly) == CHOOSE f \in poly : TRUE

\* cleaned[j].contains(point)
contains_point(poly, point) == point \in poly

\* list.sort(key=area, reverse=True): stable, largest first (insertion).
RECURSIVE insert_by_area(_, _)
insert_by_area(sorted, poly) ==
    IF sorted = <<>> THEN <<poly>>
    ELSE IF region_area(Head(sorted)) >= region_area(poly)
    THEN <<Head(sorted)>> \o insert_by_area(Tail(sorted), poly)
    ELSE <<poly>> \o sorted

RECURSIVE sort_by_area_desc(_, _)
sort_by_area_desc(polys, acc) ==
    IF polys = <<>> THEN acc
    ELSE sort_by_area_desc(Tail(polys), insert_by_area(acc, Head(polys)))

\* parents[i]: `for j in range(i): if cleaned[j].contains(point): ...; break`
\* (0 stands for -1, indices count from 1).
evenodd_parent(cleaned, i) ==
    LET point == representative_point(cleaned[i])
        holders == {j \in 1..(i - 1) : contains_point(cleaned[j], point)}
    IN  IF holders = {} THEN 0 ELSE MinOf(holders)

RECURSIVE evenodd_depth(_, _)
evenodd_depth(parents, i) ==
    IF parents[i] = 0 THEN 0 ELSE 1 + evenodd_depth(parents, parents[i])

evenodd_depths(cleaned) ==
    LET parents == [i \in DOMAIN cleaned |-> evenodd_parent(cleaned, i)]
    IN  [i \in DOMAIN cleaned |-> evenodd_depth(parents, i)]

\* _outline_evenodd: None is the empty set here (the caller treats both alike).
outline_evenodd(polygons) ==
    LET cleaned == sort_by_area_desc(SelectSeq(polygons, LAMBDA p : p # {}), <<>>)
        depths == evenodd_depths(cleaned)
        even == UNION {cleaned[i] : i \in {k \in DOMAIN cleaned : depths[k] % 2 = 0}}
        odd == UNION {cleaned[i] : i \in {k \in DOMAIN cleaned : depths[k] % 2 = 1}}
    IN  [cleaned |-> cleaned, depths |-> depths, result |-> even \ odd]

\* max(polygons, key=area): the first of the largest.
largest_polygon(polygons) ==
    LET top == MaxOf({region_area(polygons[i]) : i \in DOMAIN polygons})
    IN  polygons[MinOf({i \in DOMAIN polygons : region_area(polygons[i]) = top})]

\* polygonize(): the faces of the line network laid by the loops, each loop's
\* inside less the loops drawn inside it.
polygonize_faces(loops) ==
    [i \in DOMAIN loops |->
        loops[i] \ UNION {loops[j] : j \in {k \in DOMAIN loops : loops[k] # loops[i]
                                                              /\ loops[k] \subseteq loops[i]}}]

DistinctSeqs(S, n) == {s \in SeqsUpTo(S, n) : \A i, j \in DOMAIN s : i # j => s[i] # s[j]}

ObInit ==
    /\ \E loops \in DistinctSeqs(LoopPool, MaxLoops) \cup {<<>>},
          region \in BOOLEAN, raises \in BOOLEAN,
          strategy \in {"legacy", "graph", "robust_polygonize"},
          rule \in {"legacy", "evenodd"} :
          ob = [pc |-> "start", loops |-> loops, has_region |-> region,
                robust_raises |-> raises \/ loops = <<>>,
                outline_close_strategy |-> strategy, outline_fill_rule |-> rule,
                ran |-> {}, source |-> "none", cleaned |-> <<>>, depths |-> <<>>,
                result |-> {}]
    /\ rx = Idle /\ qf = Idle /\ gs = Idle /\ ex = Idle /\ en = Idle /\ vp = Idle /\ bb = Idle /\ sv = Idle /\ cf = Idle /\ un = Idle /\ cl = Idle

\* A Region primitive is used as it is.
ObRegion ==
    /\ ob.pc = "start" /\ ob.has_region
    /\ ob' = [ob EXCEPT !.pc = "done", !.source = "region", !.result = PolyO]
    /\ UNCHANGED <<rx, qf, gs, ex, en, vp, bb, sv, cf, un, cl>>

\* robust_polygonize: extractor.extract returns the largest face.
ObRobust ==
    /\ ob.pc = "start" /\ ~ob.has_region
    /\ ob.outline_close_strategy = "robust_polygonize"
    /\ ~ob.robust_raises
    /\ ob' = [ob EXCEPT !.pc = "done", !.source = "robust", !.ran = @ \cup {"robust"},
                        !.result = largest_polygon(polygonize_faces(ob.loops))]
    /\ UNCHANGED <<rx, qf, gs, ex, en, vp, bb, sv, cf, un, cl>>

\* `except Exception: logger.warning("Robust outline failed, falling back to legacy")`
ObRobustFails ==
    /\ ob.pc = "start" /\ ~ob.has_region
    /\ ob.outline_close_strategy = "robust_polygonize"
    /\ ob.robust_raises
    /\ ob' = [ob EXCEPT !.pc = "legacy", !.ran = @ \cup {"robust"}]
    /\ UNCHANGED <<rx, qf, gs, ex, en, vp, bb, sv, cf, un, cl>>

ObSkipRobust ==
    /\ ob.pc = "start" /\ ~ob.has_region
    /\ ob.outline_close_strategy # "robust_polygonize"
    /\ ob' = [ob EXCEPT !.pc = "legacy"]
    /\ UNCHANGED <<rx, qf, gs, ex, en, vp, bb, sv, cf, un, cl>>

\* Loops of the stitchers -> polygons -> fill rule, else the traces themselves.
ObLegacy ==
    /\ ob.pc = "legacy"
    /\ LET polygons == ob.loops
           eo == outline_evenodd(polygons)
       IN  IF polygons # <<>> /\ ob.outline_fill_rule = "legacy"
           THEN ob' = [ob EXCEPT !.pc = "done", !.source = "largest",
                                 !.ran = @ \cup {"legacy"},
                                 !.result = largest_polygon(polygons)]
           ELSE IF polygons # <<>> /\ eo.result # {}
           THEN ob' = [ob EXCEPT !.pc = "done", !.source = "evenodd",
                                 !.ran = @ \cup {"legacy"},
                                 !.cleaned = eo.cleaned, !.depths = eo.depths,
                                 !.result = eo.result]
           ELSE ob' = [ob EXCEPT !.pc = "done", !.source = "traces",
                                 !.ran = @ \cup {"legacy"}, !.result = TraceGeom]
    /\ UNCHANGED <<rx, qf, gs, ex, en, vp, bb, sv, cf, un, cl>>

ObNext == ObRegion \/ ObRobust \/ ObRobustFails \/ ObSkipRobust \/ ObLegacy

SpecOutline == ObInit /\ [][ObNext]_vars

\* ------------------------------------------------------------------------
\* C1 -- even-odd nesting depth and fill
\* ------------------------------------------------------------------------
\* The candidates that properly enclose candidate i.
ObEnclosing(i) ==
    {j \in DOMAIN ob.cleaned : j # i /\ ob.cleaned[i] \subseteq ob.cleaned[j]
                                 /\ ob.cleaned[i] # ob.cleaned[j]}

\* 1 + the depth of the smallest enclosing candidate, 0 without one.
RECURSIVE ObNestingDepth(_)
ObNestingDepth(i) ==
    IF ObEnclosing(i) = {} THEN 0
    ELSE LET small == CHOOSE j \in ObEnclosing(i) :
                         \A k \in ObEnclosing(i) :
                            region_area(ob.cleaned[j]) <= region_area(ob.cleaned[k])
         IN  1 + ObNestingDepth(small)

ObThreeNested == Range(ob.loops) = {PolyO, PolyM, PolyI}

\* C1: under the even-odd rule every candidate's depth is 1 + the depth of its
\* smallest enclosing candidate (0 without one), the outline is the union of
\* the even-depth candidates less the union of the odd-depth ones, and three
\* nested squares give area outer - middle + inner with the inner one filled.
C1_EvenOddNesting ==
    (ob.pc = "done" /\ ob.source = "evenodd") =>
        /\ \A i \in DOMAIN ob.cleaned : ob.depths[i] = ObNestingDepth(i)
        /\ ob.result =
              UNION {ob.cleaned[i] : i \in {k \in DOMAIN ob.cleaned : ob.depths[k] % 2 = 0}}
              \ UNION {ob.cleaned[i] : i \in {k \in DOMAIN ob.cleaned : ob.depths[k] % 2 = 1}}
        /\ ObThreeNested =>
              /\ region_area(ob.result)
                    = region_area(PolyO) - region_area(PolyM) + region_area(PolyI)
              /\ PolyI \subseteq ob.result

\* ========================================================================
\* pipeline/qfn.py -- regenerate_qfn_paste
\* ========================================================================
\* Lengths count units of 0.05 mm; scores are per mille. A paste polygon is
\* a record: centroid (cx, cy), sides of its minimum rotated rectangle
\* (long, short), direction of the long side (ang, degrees), its area and the
\* area of that rectangle.

\* Bound: pads per side of the package in the paste layer.
MaxSidePads == 4

\* qfn_max_pad_width_mm = 1.2 mm (config default).
qfn_max_pad_width_mm == 24

\* The pads of the ring: 0.4 mm x 0.3 mm, laid 0.5 mm apart along the row.
PadSize == [pitch |-> 10, long |-> 8, short |-> 6]

RECURSIVE insert_int(_, _)
insert_int(sorted, v) ==
    IF sorted = <<>> THEN <<v>>
    ELSE IF Head(sorted) <= v THEN <<Head(sorted)>> \o insert_int(Tail(sorted), v)
    ELSE <<v>> \o sorted

RECURSIVE sorted_ints(_, _)
sorted_ints(values, acc) ==
    IF values = <<>> THEN acc ELSE sorted_ints(Tail(values), insert_int(acc, Head(values)))

\* _median, doubled (the mean of the two middle values may be a half).
median2(values) ==
    LET v == sorted_ints(values, <<>>)
        mid == Len(v) \div 2
    IN  IF v = <<>> THEN 0
        ELSE IF Len(v) % 2 = 1 THEN 2 * v[mid + 1]
        ELSE v[mid] + v[mid + 1]

\* sorted(pads, key=p[f]): stable.
RECURSIVE insert_by_field(_, _, _)
insert_by_field(sorted, p, f) ==
    IF sorted = <<>> THEN <<p>>
    ELSE IF Head(sorted)[f] <= p[f] THEN <<Head(sorted)>> \o insert_by_field(Tail(sorted), p, f)
    ELSE <<p>> \o sorted

RECURSIVE sorted_by_field(_, _, _)
sorted_by_field(pads, f, acc) ==
    IF pads = <<>> THEN acc
    ELSE sorted_by_field(Tail(pads), f, insert_by_field(acc, Head(pads), f))

\* floor(sqrt(x)) by bisection.
RECURSIVE isqrt_between(_, _, _)
isqrt_between(x, lo, hi) ==
    IF lo >= hi THEN lo
    ELSE LET m == (lo + hi + 1) \div 2
         IN  IF m * m <= x THEN isqrt_between(x, m, hi) ELSE isqrt_between(x, lo, m - 1)

isqrt(x) == isqrt_between(x, 0, 30000)

Rect(cx, cy, lng, sht, ang) ==
    [cx |-> cx, cy |-> cy, long |-> lng, short |-> sht, ang |-> ang,
     area |-> lng * sht, rect_area |-> lng * sht]

\* One row of n pads, laid along x (ang 0) at height `at` or along y (ang 90)
\* at abscissa `at`; variant "dropped" leaves out the second pad, "shifted"
\* moves it by one unit along the row.
PadRow(n, along_x, at, variant, short) ==
    LET off(k) == (2 * k - (n + 1)) * (PadSize.pitch \div 2)
                  + (IF k = 2 /\ variant = "shifted" THEN 1 ELSE 0)
        ks == IF variant = "dropped" THEN <<1>> \o [i \in 1..(n - 2) |-> i + 2]
              ELSE [i \in 1..n |-> i]
    IN  [i \in DOMAIN ks |->
            IF along_x THEN Rect(off(ks[i]), at, PadSize.long, short, 0)
                       ELSE Rect(at, off(ks[i]), PadSize.long, short, 90)]

\* Other polygons of the paste layer, inside the ring of pads.
ExtraPolys ==
    [center |-> Rect(0, 0, 16, 16, 0),                               \* 0.8 mm square
     thin   |-> Rect(0, 12, 14, 2, 0),                               \* ratio 7
     blob   |-> [Rect(0, -12, 8, 6, 0) EXCEPT !.area = 30],          \* fills 62 %
     pad    |-> Rect(12, 0, 8, 6, 90),                               \* one more pad
     wide   |-> Rect(0, 0, 32, 26, 0)]                               \* short side 1.3 mm

\* The extras that fit together inside the ring without touching.
ExtraSets == (SUBSET {"center", "thin", "blob", "pad"}) \cup {{"wide"}}

RECURSIVE SeqOfSet(_)
SeqOfSet(S) ==
    IF S = {} THEN <<>>
    ELSE LET x == CHOOSE x \in S : TRUE IN <<x>> \o SeqOfSet(S \ {x})

\* The paste polygons: top, right, bottom and left pads, then the extras;
\* every polygon gets its index as identity.
PastePolys(n, spread, variant, top_short, extras) ==
    LET d == (n - 1) * (PadSize.pitch \div 2) + spread
        ring == PadRow(n, TRUE, d, variant, top_short) \o PadRow(n, FALSE, d, "regular", PadSize.short)
                \o PadRow(n, TRUE, -d, "regular", PadSize.short) \o PadRow(n, FALSE, -d, "regular", PadSize.short)
        names == SeqOfSet(extras)
        all == ring \o [i \in DOMAIN names |-> ExtraPolys[names[i]]]
    IN  [i \in DOMAIN all |->
            [id |-> i, cx |-> all[i].cx, cy |-> all[i].cy, long |-> all[i].long,
             short |-> all[i].short, ang |-> all[i].ang, area |-> all[i].area,
             rect_area |-> all[i].rect_area, nx |-> 0, ny |-> 0, nang |-> 0]]

\* Mutant: the candidate filter without the test on the side ratio.
is_pad_candidate_any_ratio(poly, max_pad_width) ==
    /\ poly.rect_area > 0
    /\ 100 * poly.area >= 85 * poly.rect_area
    /\ poly.short <= max_pad_width

\* The candidate filter of _detect_qfn_pads.
is_pad_candidate(poly, max_pad_width) ==
    /\ poly.rect_area > 0
    /\ 100 * poly.area >= 85 * poly.rect_area
    /\ poly.short > 0
    /\ 5 * poly.long >= 6 * poly.short
    /\ poly.long <= 6 * poly.short
    /\ poly.short <= max_pad_width

\* The least number of candidates (len(pads) < 12 -> None).
min_pad_candidates == 12

\* Mutant: every polygon counts as a pad.
detect_qfn_pads_unfiltered(polys, max_pad_width) == polys

detect_qfn_pads(polys, max_pad_width) ==
    SelectSeq(polys, LAMBDA p : is_pad_candidate(p, max_pad_width))

\* MultiPoint(centers).minimum_rotated_rectangle and the direction of its
\* longest edge: the hull of these layouts has edges along the axes and the
\* diagonals only, so the rectangle lies along the axes or at 45 degrees.
\* The set of directions it may report (a square has no longest edge).
global_angles(pads) ==
    LET xs == {pads[i].cx : i \in DOMAIN pads}
        ys == {pads[i].cy : i \in DOMAIN pads}
        ss == {pads[i].cx + pads[i].cy : i \in DOMAIN pads}
        ds == {pads[i].cx - pads[i].cy : i \in DOMAIN pads}
        w == MaxOf(xs) - MinOf(xs)
        h == MaxOf(ys) - MinOf(ys)
        diag2 == (MaxOf(ss) - MinOf(ss)) * (MaxOf(ds) - MinOf(ds))
    IN  IF diag2 < 2 * w * h THEN {45, 135}
        ELSE IF w > h THEN {0}
        ELSE IF h > w THEN {90}
        ELSE {0, 90}

\* center_norm = _rotate_point(center, -global_angle), angle_norm.
normalize_pads(pads, global_angle) ==
    [i \in DOMAIN pads |->
        [pads[i] EXCEPT !.nx = IF global_angle = 0 THEN pads[i].cx ELSE pads[i].cy,
                        !.ny = IF global_angle = 0 THEN pads[i].cy ELSE 0 - pads[i].cx,
                        !.nang = (pads[i].ang - global_angle) % 180]]

seq_field(pads, f) == [i \in DOMAIN pads |-> pads[i][f]]

\* _make_row: pads sorted along the row, coord = median across it (doubled).
make_row(pads, axis) ==
    [pads |-> sorted_by_field(pads, IF axis = "y" THEN "nx" ELSE "ny", <<>>),
     axis |-> axis,
     coord2 |-> median2(seq_field(pads, IF axis = "y" THEN "ny" ELSE "nx"))]

\* The clustering loop of _cluster_rows over the sorted pads.
RECURSIVE cluster_loop(_, _, _, _, _, _)
cluster_loop(rest, current, rows, tol4, key, axis) ==
    IF rest = <<>>
    THEN IF Len(current) >= 3 THEN Append(rows, make_row(current, axis)) ELSE rows
    ELSE LET pad == Head(rest)
             last == current[Len(current)][key]
             gap == IF pad[key] >= last THEN pad[key] - last ELSE last - pad[key]
         IN  IF current = <<>> \/ 4 * gap <= tol4
             THEN cluster_loop(Tail(rest), Append(current, pad), rows, tol4, key, axis)
             ELSE cluster_loop(Tail(rest), <<pad>>,
                               IF Len(current) >= 3 THEN Append(rows, make_row(current, axis))
                               ELSE rows,
                               tol4, key, axis)

\* _cluster_rows: tol = max(1.5 * median width, 0.5 * qfn_min_feature_mm).
cluster_rows(pads, axis, min_feature) ==
    IF pads = <<>> THEN <<>>
    ELSE LET tol4 == Max2(3 * median2(seq_field(pads, "short")), 2 * min_feature)
             key == IF axis = "y" THEN "ny" ELSE "nx"
         IN  cluster_loop(sorted_by_field(pads, key, <<>>), <<>>, <<>>, tol4, key, axis)

\* _pick_qfn_sides; sides in the order top, right, bottom, left.
pick_qfn_sides(horiz_rows, vert_rows) ==
    IF Len(horiz_rows) < 2 \/ Len(vert_rows) < 2 THEN <<>>
    ELSE LET h == sorted_by_field(horiz_rows, "coord2", <<>>)
             v == sorted_by_field(vert_rows, "coord2", <<>>)
             sides == <<h[Len(h)], v[Len(v)], h[1], v[1]>>
             counts == {Len(sides[i].pads) : i \in 1..4}
         IN  IF \E i \in 1..4 : Len(sides[i].pads) < 3 THEN <<>>
             ELSE IF MaxOf(counts) - MinOf(counts) > Max2(2, (3 * MaxOf(counts)) \div 10) THEN <<>>
             ELSE sides

\* _detect_center_pad: the id of the largest polygon of at least four median
\* pad areas lying near the centre, 0 for none.
RECURSIVE center_pad_loop(_, _, _, _, _, _)
center_pad_loop(polys, i, area_median2, center2, max_area, max_poly) ==
    IF i > Len(polys) THEN max_poly
    ELSE LET poly == polys[i]
             dx2 == 2 * poly.nx - center2[1]
             dy2 == 2 * poly.ny - center2[2]
             take == /\ poly.area >= 2 * area_median2
                     /\ dx2 * dx2 + dy2 * dy2 <= Max2(1600, 32 * area_median2)
                     /\ poly.area > max_area
         IN  center_pad_loop(polys, i + 1, area_median2, center2,
                             IF take THEN poly.area ELSE max_area,
                             IF take THEN poly.id ELSE max_poly)

detect_center_pad(polys, center2, pads) ==
    IF pads = <<>> THEN 0
    ELSE center_pad_loop(polys, 1, median2(seq_field(pads, "area")), center2, 0, 0)

\* _side_pitches
side_pitches(side) ==
    LET coords == sorted_ints(seq_field(side.pads, IF side.axis = "y" THEN "nx" ELSE "ny"), <<>>)
    IN  IF Len(side.pads) < 2 THEN <<>>
        ELSE [i \in 1..(Len(coords) - 1) |-> coords[i + 1] - coords[i]]

\* _score_variation: max(0, 1 - cv / target_cv), per mille.
score_variation(values, target_cv) ==
    LET n == Len(values)
        s == SumSeq(values)
        q == SumSeq([i \in DOMAIN values |-> values[i] * values[i]])
        cv == (10 * isqrt(10000 * (n * q - s * s))) \div s
    IN  IF values = <<>> \/ s <= 0 THEN 0
        ELSE Max2(0, 1000 - (1000 * cv) \div target_cv)

average(values) == IF values = <<>> THEN 0 ELSE SumSeq(values) \div Len(values)

RECURSIVE concat_pads(_)
concat_pads(sides) ==
    IF sides = <<>> THEN <<>> ELSE Head(sides).pads \o concat_pads(Tail(sides))

\* _score_qfn
score_qfn(sides, center_pad) ==
    LET spacing == [i \in 1..4 |-> score_variation(side_pitches(sides[i]), 200)]
        counts == {Len(sides[i].pads) : i \in 1..4}
        symmetry == 1000 - (1000 * (MaxOf(counts) - MinOf(counts))) \div MaxOf(counts)
        base == average(<<average(spacing),
                          score_variation(seq_field(concat_pads(sides), "short"), 250),
                          Max2(0, symmetry), 1000>>)
    IN  IF center_pad # 0 THEN Min2(1000, base + 50) ELSE base

\* _build_qfn_group for one direction the rectangle of centres may report:
\* sides = <<>> stands for the None result.
build_qfn_group(pads0, polys0, global_angle, min_feature) ==
    LET pads == normalize_pads(pads0, global_angle)
        polys == normalize_pads(polys0, global_angle)
        horizontal == SelectSeq(pads, LAMBDA p : p.nang <= 30 \/ p.nang >= 150)
        vertical == SelectSeq(pads, LAMBDA p : ~(p.nang <= 30 \/ p.nang >= 150)
                                               /\ 60 <= p.nang /\ p.nang <= 120)
        horiz_rows == cluster_rows(horizontal, "y", min_feature)
        vert_rows == cluster_rows(vertical, "x", min_feature)
        center2 == <<median2(seq_field(pads, "nx")), median2(seq_field(pads, "ny"))>>
        sides == pick_qfn_sides(horiz_rows, vert_rows)
        center_pad == detect_center_pad(polys, center2, pads)
        none == [sides |-> <<>>, center_pad |-> 0, global_angle |-> global_angle,
                 center2 |-> center2, score |-> 0]
    IN  IF Len(horizontal) < 6 \/ Len(vertical) < 6 THEN none
        ELSE IF horiz_rows = <<>> \/ vert_rows = <<>> THEN none
        ELSE IF sides = <<>> THEN none
        ELSE [sides |-> sides, center_pad |-> center_pad, global_angle |-> global_angle,
              center2 |-> center2, score |-> score_qfn(sides, center_pad)]

\* Slot coordinates count 1/240 of a unit, so that every division below is
\* exact.
Fine == 240

\* slots_count of _generate_slots_for_side
slots_count(count) == IF count <= 6 THEN 2 ELSE IF count <= 12 THEN 3 ELSE 4

\* _generate_slots_for_side: the slots of one side, each with its extent
\* [lo, hi] along the row, its width across the row and the offset of its
\* centre line from the row.
generate_slots_for_side(side, center2, min_feature) ==
    LET pads == side.pads
        n == slots_count(Len(pads))
        coords == {pads[i][IF side.axis = "y" THEN "nx" ELSE "ny"] : i \in DOMAIN pads}
        coord_min == Fine * MinOf(coords)
        coord_max == Fine * MaxOf(coords)
        span == coord_max - coord_min
        slot_width == Max2(Fine * min_feature, (Fine \div 2) * median2(seq_field(pads, "short")))
        slot_length == Max2(Max2(2 * slot_width, Min2((span * 8) \div 10, span)), (span * 6) \div 10)
        low == coord_min + slot_length \div 2
        high == coord_max - slot_length \div 2
        center(i) == IF high < low THEN (coord_min + coord_max) \div 2
                     ELSE Max2(low, Min2(high, coord_min + ((2 * i + 1) * span) \div (2 * n)))
        outward == IF side.coord2 > center2[IF side.axis = "y" THEN 2 ELSE 1] THEN 1 ELSE -1
        bias == Min2((3 * slot_width) \div 10, 5 * Fine)
    IN  IF span <= 0 THEN <<>>
        ELSE [k \in 1..n |->
                [axis |-> side.axis, row2 |-> side.coord2, offset |-> outward * bias,
                 count |-> Len(pads),
                 lo |-> center(k - 1) - slot_length \div 2,
                 hi |-> center(k - 1) + slot_length \div 2,
                 width |-> slot_width, length |-> slot_length]]

\* _generate_center_windowpane for a rectangular centre pad: the grid cells
\* that become windows; {} stands for None. Every cell is at least
\* min_feature on a side and lies inside the pad, so none is dropped.
generate_center_windowpane(center_pad, min_feature) ==
    LET width == center_pad.long
        height == center_pad.short
        m == Min2(width, height)
        cells == IF m < 60 THEN 2 ELSE IF m < 120 THEN 3 ELSE 4
    IN  IF width <= 2 * min_feature \/ height <= 2 * min_feature THEN {}
        ELSE IF width - (cells + 1) * min_feature < cells * min_feature
                \/ height - (cells + 1) * min_feature < cells * min_feature THEN {}
        ELSE (1..cells) \X (1..cells)

\* The loop over the sides of _regenerate_qfn_geometry, in the order top,
\* bottom, left, right; ok = FALSE stands for the None result.
RECURSIVE regenerate_sides(_, _, _, _, _)
regenerate_sides(sides, center2, min_feature, kept, slots) ==
    IF sides = <<>> THEN [ok |-> TRUE, kept |-> kept, slots |-> slots]
    ELSE LET side == Head(sides)
             pitches == side_pitches(side)
             web2 == median2(pitches) - median2(seq_field(side.pads, "short"))
             side_slots == generate_slots_for_side(side, center2, min_feature)
         IN  IF pitches = <<>> THEN [ok |-> FALSE, kept |-> kept, slots |-> slots]
             ELSE IF web2 < 2 * min_feature
             THEN IF side_slots = <<>> THEN [ok |-> FALSE, kept |-> kept, slots |-> slots]
                  ELSE regenerate_sides(Tail(sides), center2, min_feature, kept,
                                        Append(slots, side_slots))
             ELSE regenerate_sides(Tail(sides), center2, min_feature,
                                   kept \cup Range(seq_field(side.pads, "id")), slots)

\* Mutant: starts from no kept polygon instead of the polygons that are
\* neither side pads nor the centre pad.
regenerate_qfn_geometry_pads_only(qfn, polys, min_feature) ==
    LET order == <<qfn.sides[1], qfn.sides[3], qfn.sides[4], qfn.sides[2]>>
        r == regenerate_sides(order, qfn.center2, min_feature, {}, <<>>)
        windows == IF qfn.center_pad = 0 THEN {}
                   ELSE generate_center_windowpane(polys[qfn.center_pad], min_feature)
    IN  IF ~r.ok THEN [kind |-> "input"]
        ELSE [kind |-> "regenerated", slots |-> r.slots, windows |-> windows,
              kept |-> IF qfn.center_pad # 0 /\ windows = {}
                       THEN r.kept \cup {qfn.center_pad} ELSE r.kept]

\* _regenerate_qfn_geometry: the polygons kept, the slots per regenerated side
\* and the windows that make up the merged geometry.
regenerate_qfn_geometry(qfn, polys, min_feature) ==
    LET pad_set == Range(seq_field(concat_pads(qfn.sides), "id"))
        kept0 == {polys[i].id : i \in DOMAIN polys} \ (pad_set \cup {qfn.center_pad})
        order == <<qfn.sides[1], qfn.sides[3], qfn.sides[4], qfn.sides[2]>>
        r == regenerate_sides(order, qfn.center2, min_feature, kept0, <<>>)
        windows == IF qfn.center_pad = 0 THEN {}
                   ELSE generate_center_windowpane(polys[qfn.center_pad], min_feature)
    IN  IF ~r.ok THEN [kind |-> "input"]
        ELSE [kind |-> "regenerated", slots |-> r.slots, windows |-> windows,
              kept |-> IF qfn.center_pad # 0 /\ windows = {}
                       THEN r.kept \cup {qfn.center_pad} ELSE r.kept]

TopVariants == {"regular", "dropped", "shifted"}

\* The paste layer and configuration regenerate_qfn_paste is called with.
QfInit ==
    /\ \E n \in 2..MaxSidePads, spread \in {10, 30}, variant \in TopVariants,
          top_short \in {PadSize.short, 4}, extras \in ExtraSets,
          threshold \in {750, 970}, min_feature \in {2, 12} :
          qf = [pc |-> "start",
                polys |-> PastePolys(n, spread, variant, top_short, extras),
                qfn_confidence_threshold |-> threshold,
                qfn_min_feature_mm |-> min_feature,
                pads |-> <<>>, qfn |-> [sides |-> <<>>], result |-> [kind |-> "none"]]
    /\ rx = Idle /\ ob = Idle /\ gs = Idle /\ ex = Idle /\ en = Idle /\ vp = Idle /\ bb = Idle /\ sv = Idle /\ cf = Idle /\ un = Idle /\ cl = Idle

\* regenerate_qfn_paste, lines 16-21: collect the polygons, detect the pads.
QfDetect ==
    /\ qf.pc = "start"
    /\ LET pads == detect_qfn_pads(qf.polys, qfn_max_pad_width_mm)
       IN  IF qf.polys = <<>> \/ Len(pads) < min_pad_candidates
           THEN qf' = [qf EXCEPT !.pc = "done", !.pads = pads, !.result = [kind |-> "input"]]
           ELSE qf' = [qf EXCEPT !.pc = "detected", !.pads = pads]
    /\ UNCHANGED <<rx, ob, gs, ex, en, vp, bb, sv, cf, un, cl>>

\* regenerate_qfn_paste, lines 22-25: group, score, compare with the threshold.
QfGroup ==
    /\ qf.pc = "detected"
    /\ \E global_angle \in global_angles(qf.pads) :
          LET qfn == build_qfn_group(qf.pads, qf.polys, global_angle, qf.qfn_min_feature_mm)
          IN  IF qfn.sides = <<>> \/ qfn.score < qf.qfn_confidence_threshold
              THEN qf' = [qf EXCEPT !.pc = "done", !.qfn = qfn, !.result = [kind |-> "input"]]
              ELSE qf' = [qf EXCEPT !.pc = "grouped", !.qfn = qfn]
    /\ UNCHANGED <<rx, ob, gs, ex, en, vp, bb, sv, cf, un, cl>>

\* regenerate_qfn_paste, lines 26-29: regenerate, or the input when that fails.
QfRegenerate ==
    /\ qf.pc = "grouped"
    /\ qf' = [qf EXCEPT !.pc = "done",
                        !.result = regenerate_qfn_geometry(qf.qfn, qf.polys, qf.qfn_min_feature_mm)]
    /\ UNCHANGED <<rx, ob, gs, ex, en, vp, bb, sv, cf, un, cl>>

QfNext == QfDetect \/ QfGroup \/ QfRegenerate

SpecQfn == QfInit /\ [][QfNext]_vars

\* ========================================================================
\* pipeline/core.py -- generate_stencil
\* ========================================================================
\* A 2D geometry is a record: the square [lo, hi] x [lo, hi] bounding it,
\* whether it fills that square (solid) and where it came from (tag); the
\* tags "none" and "empty" stand for None and for an empty geometry. Locators are disabled. A mesh is a record: its number of faces and
\* whether its minimum corner is at the origin.

Geom(lo, hi, solid, tag) == [lo |-> lo, hi |-> hi, solid |-> solid, tag |-> tag]

NoGeom == Geom(0, 0, FALSE, "none")

EmptyGeom == Geom(0, 0, FALSE, "empty")

is_empty(g) == g.tag = "empty"

\* geometry.buffer(distance): the bounds move by the distance on every side.
buffer(g, distance) ==
    IF is_empty(g) THEN EmptyGeom
    ELSE IF g.hi + distance <= g.lo - distance THEN EmptyGeom
    ELSE [g EXCEPT !.lo = g.lo - distance, !.hi = g.hi + distance]

\* The bounding box of the paste with no margin added.
outline_from_paste_no_margin(paste_geom, margin_mm) ==
    Geom(paste_geom.lo, paste_geom.hi, TRUE, "fallback")

\* _outline_from_paste
outline_from_paste(paste_geom, margin_mm) ==
    Geom(paste_geom.lo - margin_mm, paste_geom.hi + margin_mm, TRUE, "fallback")

\* outline_geom.difference(paste_geom)
difference(outline_geom, paste_geom) ==
    IF paste_geom.solid /\ paste_geom.lo <= outline_geom.lo /\ outline_geom.hi <= paste_geom.hi
    THEN EmptyGeom
    ELSE Geom(outline_geom.lo, outline_geom.hi, FALSE, "difference")

\* What regenerate_qfn_paste hands back for a paste geometry: the geometry
\* itself or a regenerated one, whose slots reach one unit further out.
regenerated(g) == Geom(g.lo - 1, g.hi + 1, FALSE, "regenerated")

PasteLoads ==
    {NoGeom, EmptyGeom, Geom(0, 10, FALSE, "paste"), Geom(5, 6, TRUE, "paste"),
     Geom(5, 15, FALSE, "paste")}

GsConfigs ==
    [valid : BOOLEAN, qfn_regen_enabled : BOOLEAN, paste_offset_mm : {-1, 0},
     outline_margin_mm : {0, 2}, output_mode : {"holes_only", "solid_with_cutouts"},
     model_backend : {"trimesh", "cadquery"}]

\* The call generate_stencil(input_dir, output_path, config): the input
\* directory holds paste files or not, outline files or not.
GsInit ==
    /\ \E config \in GsConfigs, paste_files \in BOOLEAN, outline_files \in BOOLEAN :
          gs = [pc |-> "validate", config |-> config, paste_files |-> paste_files,
                outline_files |-> outline_files, loaded |-> NoGeom, qfn |-> "skipped",
                offset_input |-> NoGeom, paste_geom |-> NoGeom, outline_geom |-> NoGeom,
                outline_loader_called |-> FALSE, stencil_2d |-> NoGeom,
                mesh |-> [faces |-> 0, at_origin |-> FALSE],
                file |-> "absent", error |-> "none"]
    /\ rx = Idle /\ ob = Idle /\ qf = Idle /\ ex = Idle /\ en = Idle /\ vp = Idle /\ bb = Idle /\ sv = Idle /\ cf = Idle /\ un = Idle /\ cl = Idle

GsRaise(error) == gs' = [gs EXCEPT !.pc = "failed", !.error = error]

GsOthers == <<rx, ob, qf, ex, en, vp, bb, sv, cf, un, cl>>

\* line 36: config.validate()
GsValidate ==
    /\ gs.pc = "validate"
    /\ IF gs.config.valid THEN gs' = [gs EXCEPT !.pc = "paste"] ELSE GsRaise("ValueError: config")
    /\ UNCHANGED GsOthers

\* lines 55-63: find and load the paste layers.
GsLoadPaste ==
    /\ gs.pc = "paste"
    /\ IF ~gs.paste_files THEN GsRaise("FileNotFoundError: paste")
       ELSE \E g \in PasteLoads :
               IF g = NoGeom \/ is_empty(g)
               THEN gs' = [gs EXCEPT !.pc = "failed", !.loaded = g,
                                     !.error = "ValueError: paste empty"]
               ELSE gs' = [gs EXCEPT !.pc = "qfn", !.loaded = g, !.paste_geom = g]
    /\ UNCHANGED GsOthers

\* lines 68-72 with the exception propagating instead of being caught.
GsQfnPropagates ==
    /\ gs.pc = "qfn"
    /\ IF ~gs.config.qfn_regen_enabled THEN gs' = [gs EXCEPT !.pc = "offset"]
       ELSE \/ gs' = [gs EXCEPT !.pc = "offset", !.qfn = "unchanged"]
            \/ gs' = [gs EXCEPT !.pc = "offset", !.qfn = "regenerated",
                                !.paste_geom = regenerated(gs.paste_geom)]
            \/ gs' = [gs EXCEPT !.pc = "failed", !.qfn = "raised", !.error = "Exception: qfn"]
    /\ UNCHANGED GsOthers

\* lines 68-72: regenerate_qfn_paste returns the geometry it was given,
\* returns a regenerated one, or raises; the handler logs a warning.
GsQfn ==
    /\ gs.pc = "qfn"
    /\ IF ~gs.config.qfn_regen_enabled THEN gs' = [gs EXCEPT !.pc = "offset"]
       ELSE \/ gs' = [gs EXCEPT !.pc = "offset", !.qfn = "unchanged"]
            \/ gs' = [gs EXCEPT !.pc = "offset", !.qfn = "regenerated",
                                !.paste_geom = regenerated(gs.paste_geom)]
            \/ gs' = [gs EXCEPT !.pc = "offset", !.qfn = "raised"]
    /\ UNCHANGED GsOthers

\* lines 75-79 without the test for an empty geometry.
GsOffsetUnchecked ==
    /\ gs.pc = "offset"
    /\ gs' = [gs EXCEPT !.pc = "outline", !.offset_input = gs.paste_geom,
                        !.paste_geom = buffer(gs.paste_geom, gs.config.paste_offset_mm)]
    /\ UNCHANGED GsOthers

\* lines 75-79: the paste offset.
GsOffset ==
    /\ gs.pc = "offset"
    /\ LET g == buffer(gs.paste_geom, gs.config.paste_offset_mm)
       IN  IF is_empty(g)
           THEN gs' = [gs EXCEPT !.pc = "failed", !.error = "ValueError: paste offset empty",
                                 !.offset_input = gs.paste_geom, !.paste_geom = g]
           ELSE gs' = [gs EXCEPT !.pc = "outline", !.offset_input = gs.paste_geom,
                                 !.paste_geom = g]
    /\ UNCHANGED GsOthers

\* lines 85-138: the outline layer, or the box around the paste.
GsOutline ==
    /\ gs.pc = "outline"
    /\ IF gs.outline_files
       THEN \/ gs' = [gs EXCEPT !.pc = "stencil", !.outline_loader_called = TRUE,
                                !.outline_geom = Geom(-5, 20, TRUE, "outline")]
            \/ gs' = [gs EXCEPT !.pc = "stencil", !.outline_loader_called = TRUE,
                                !.outline_geom = outline_from_paste(gs.paste_geom,
                                                     gs.config.outline_margin_mm)]
            \/ gs' = [gs EXCEPT !.pc = "failed", !.outline_loader_called = TRUE,
                                !.error = "ValueError: outline"]
       ELSE gs' = [gs EXCEPT !.pc = "stencil",
                             !.outline_geom = outline_from_paste(gs.paste_geom,
                                                  gs.config.outline_margin_mm)]
    /\ UNCHANGED GsOthers

\* lines 147-162: the 2D stencil.
GsStencil2D ==
    /\ gs.pc = "stencil"
    /\ gs' = [gs EXCEPT !.pc = IF gs.config.model_backend = "cadquery"
                               THEN "cadquery" ELSE "extrude",
                        !.stencil_2d = IF gs.config.output_mode = "holes_only"
                                       THEN gs.paste_geom
                                       ELSE difference(gs.outline_geom, gs.paste_geom)]
    /\ UNCHANGED GsOthers

\* lines 257-259 and cadquery.py 18-118: export_cadquery_stl raises, or moves
\* the solid to the origin (line 96, no try around it), writes the file and
\* checks its size.
GsCadquery ==
    /\ gs.pc = "cadquery"
    /\ \/ GsRaise("ImportError: cadquery")
       \/ is_empty(gs.stencil_2d) /\ GsRaise("ValueError: no solids")
       \/ /\ ~is_empty(gs.stencil_2d)
          /\ \E file \in {"zero bytes", "no faces", "faces"} :
                IF file = "zero bytes"
                THEN gs' = [gs EXCEPT !.pc = "failed", !.file = file,
                                      !.mesh = [faces |-> 2, at_origin |-> TRUE],
                                      !.error = "ValueError: file empty"]
                ELSE gs' = [gs EXCEPT !.pc = "done", !.file = file,
                                      !.mesh = [faces |-> 2, at_origin |-> TRUE]]
    /\ UNCHANGED GsOthers

\* line 262 and geometry.py 16-50: extrude_geometry.
GsExtrude ==
    /\ gs.pc = "extrude"
    /\ IF is_empty(gs.stencil_2d) THEN GsRaise("ValueError: no mesh")
       ELSE gs' = [gs EXCEPT !.pc = "post",
                             !.mesh = [faces |-> 2, at_origin |-> gs.stencil_2d.lo = 0]]
    /\ UNCHANGED GsOthers

\* lines 273-285: cleanup_mesh and translate_to_origin, each in a try block
\* that logs; then the test for an empty mesh.
GsPostprocess ==
    /\ gs.pc = "post"
    /\ \E cleaned \in {gs.mesh, [gs.mesh EXCEPT !.faces = 0]}, translate_raises \in BOOLEAN :
          LET mesh == IF translate_raises \/ cleaned.faces = 0 THEN cleaned
                      ELSE [cleaned EXCEPT !.at_origin = TRUE]
          IN  IF mesh.faces = 0
              THEN gs' = [gs EXCEPT !.pc = "failed", !.mesh = mesh,
                                    !.error = "ValueError: mesh empty"]
              ELSE gs' = [gs EXCEPT !.pc = "write", !.mesh = mesh]
    /\ UNCHANGED GsOthers

\* lines 289-307: write the STL, check its size, read it back.
GsWrite ==
    /\ gs.pc = "write"
    /\ \E file \in {"zero bytes", "no faces", "unreadable", "faces"} :
          IF file = "faces" THEN gs' = [gs EXCEPT !.pc = "done", !.file = file]
          ELSE gs' = [gs EXCEPT !.pc = "failed", !.file = file,
                                !.error = IF file = "zero bytes" THEN "ValueError: file empty"
                                          ELSE "ValueError: validate STL"]
    /\ UNCHANGED GsOthers

GsNext ==
    \/ GsValidate \/ GsLoadPaste \/ GsQfn \/ GsOffset \/ GsOutline \/ GsStencil2D
    \/ GsCadquery \/ GsExtrude \/ GsPostprocess \/ GsWrite

SpecCore == GsInit /\ [][GsNext]_vars

\* ========================================================================
\* pipeline/geometry.py, pipeline/engine.py -- extrusion of one polygon
\* ========================================================================
\* The polygon has one hole. The plane is cut into pieces: three pieces of
\* material and two of the hole, with their areas (the material adds up to
\* 1000). A triangle is the set of pieces it covers and the piece holding
\* its representative point.

PieceArea == [m_big |-> 990, m_a |-> 4, m_b |-> 6, h_a |-> 3, h_rest |-> 97]

Material == {"m_big", "m_a", "m_b"}

Hole == {"h_a", "h_rest"}

Triangle ==
    [big        |-> [pieces |-> {"m_big"}, rep |-> "m_big"],
     a          |-> [pieces |-> {"m_a"}, rep |-> "m_a"],
     b          |-> [pieces |-> {"m_b"}, rep |-> "m_b"],
     sliver     |-> [pieces |-> {"m_a", "h_a"}, rep |-> "m_a"],
     sliver_out |-> [pieces |-> {"m_b", "h_a"}, rep |-> "h_a"],
     hole       |-> [pieces |-> {"h_rest"}, rep |-> "h_rest"],
     flat       |-> [pieces |-> {}, rep |-> "m_big"]]

\* What a triangulation routine may hand back: an exact tiling, tilings with
\* a sliver across the hole boundary, the hull with the hole filled, tilings
\* that miss a part, a degenerate triangle, nothing.
Triangulations ==
    {{"big", "a", "b"}, {"big", "sliver", "b"}, {"big", "a", "sliver_out"},
     {"big", "a", "b", "hole"}, {"big", "b"}, {"big"}, {"big", "a", "b", "flat"}, {}}

RECURSIVE pieces_area(_)
pieces_area(P) ==
    IF P = {} THEN 0
    ELSE LET x == CHOOSE x \in P : TRUE IN PieceArea[x] + pieces_area(P \ {x})

tri_area(t) == pieces_area(Triangle[t].pieces)

RECURSIVE kept_area(_)
kept_area(T) ==
    IF T = {} THEN 0
    ELSE LET t == CHOOSE t \in T : TRUE IN tri_area(t) + kept_area(T \ {t})

\* coverage >= 0.995
coverage_ok(T) == 1000 * kept_area(T) >= 995 * pieces_area(Material)

\* The filter of _triangulate_polygon_robust: area > 0 and poly.covers(tri).
keep_covered(T) == {t \in T : tri_area(t) > 0 /\ Triangle[t].pieces \subseteq Material}

\* The filter of _extrude_polygon_with_cdt: area > 0 and the representative
\* point covered.
keep_by_point(T) == {t \in T : tri_area(t) > 0 /\ Triangle[t].rep \in Material}

\* _triangulate_polygon_robust: the triangles kept and the strategies tried.
triangulate_polygon_robust(cdt_raises, cdt, delaunay) ==
    LET first == IF cdt_raises THEN {} ELSE keep_covered(cdt)
    IN  IF ~cdt_raises /\ cdt # {} /\ coverage_ok(first) /\ first # {}
        THEN [triangles |-> first, tried |-> <<"constrained">>]
        ELSE [triangles |-> keep_covered(delaunay), tried |-> <<"constrained", "unconstrained">>]

ExInit ==
    /\ \E routine \in {"extrude_polygon_solid", "extrude_polygon_with_cdt"},
          cdt \in Triangulations, cdt_raises \in BOOLEAN, delaunay \in Triangulations,
          earcut_raises \in BOOLEAN :
          /\ cdt_raises => cdt = {}
          /\ ex = [pc |-> routine, cdt_raises |-> cdt_raises, cdt |-> cdt, delaunay |-> delaunay,
                   earcut_raises |-> earcut_raises, tried |-> <<>>, kept |-> {},
                   source |-> "none"]
    /\ rx = Idle /\ ob = Idle /\ qf = Idle /\ gs = Idle /\ en = Idle /\ vp = Idle /\ bb = Idle /\ sv = Idle /\ cf = Idle /\ un = Idle /\ cl = Idle

ExOthers == <<rx, ob, qf, gs, en, vp, bb, sv, cf, un, cl>>

\* geometry.py, extrude_polygon_solid.
ExExtrudePolygonSolid ==
    /\ ex.pc = "extrude_polygon_solid"
    /\ LET r == triangulate_polygon_robust(ex.cdt_raises, ex.cdt, ex.delaunay)
       IN  IF ~coverage_ok(r.triangles) /\ ~ex.earcut_raises
           THEN ex' = [ex EXCEPT !.pc = "done", !.tried = ex.tried \o r.tried \o <<"earcut">>,
                                 !.kept = {"big", "a", "b"}, !.source = "earcut"]
           ELSE IF r.triangles = {}
           THEN ex' = [ex EXCEPT !.pc = "failed",
                                 !.tried = ex.tried \o r.tried
                                           \o (IF coverage_ok(r.triangles) THEN <<>> ELSE <<"earcut">>)]
           ELSE ex' = [ex EXCEPT !.pc = "done",
                                 !.tried = ex.tried \o r.tried
                                           \o (IF coverage_ok(r.triangles) THEN <<>> ELSE <<"earcut">>),
                                 !.kept = r.triangles, !.source = "triangles"]
    /\ UNCHANGED ExOthers

\* engine.py, _extrude_polygon_with_cdt; extrude_geometry hands the polygon
\* to extrude_polygon_solid.
ExExtrudePolygonWithCdt ==
    /\ ex.pc = "extrude_polygon_with_cdt"
    /\ IF ex.cdt_raises THEN ex' = [ex EXCEPT !.pc = "failed", !.tried = <<"sfmesh constrained">>]
       ELSE IF ex.cdt = {} \/ ~coverage_ok(keep_by_point(ex.cdt))
       THEN ex' = [ex EXCEPT !.pc = "extrude_polygon_solid", !.tried = <<"sfmesh constrained">>]
       ELSE ex' = [ex EXCEPT !.pc = "done", !.tried = <<"sfmesh constrained">>,
                             !.kept = keep_by_point(ex.cdt), !.source = "sfmesh triangles"]
    /\ UNCHANGED ExOthers

ExNext == ExExtrudePolygonSolid \/ ExExtrudePolygonWithCdt

SpecExtrude == ExInit /\ [][ExNext]_vars

\* ========================================================================
\* pipeline/engine.py -- get_model_engine, the engines' export
\* ========================================================================
\* A mesh is a record: its face count, whether it is watertight, and where it
\* came from. Locators are disabled.

Mesh(faces, watertight, origin) == [faces |-> faces, watertight |-> watertight, origin |-> origin]

NoMesh == Mesh(0, FALSE, "none")

\* An exception that leaves the rebuild functions uncaught.
Raised == Mesh(0, FALSE, "raised")

\* (name or "").strip().lower()
lower_strip(name) == IF name = "SFMESH " THEN "sfmesh" ELSE name

\* get_model_engine: the name of the engine returned, or ValueError.
get_model_engine(name) ==
    LET key == IF lower_strip(name) = "sfmesh" THEN "trimesh" ELSE lower_strip(name)
    IN  IF key \in {"cadquery", "trimesh", "sfmesh"} THEN key ELSE "ValueError"

\* _should_attempt_watertight
should_attempt_watertight(mesh, cfg) ==
    IF cfg.sfmesh_quality_mode = "fast" THEN FALSE
    ELSE IF mesh.faces <= 0 THEN FALSE
    ELSE IF mesh.faces > cfg.sfmesh_watertight_face_limit THEN FALSE
    ELSE IF cfg.sfmesh_quality_mode = "auto" THEN ~mesh.watertight
    ELSE TRUE

\* _rebuild_watertight_single: voxelized/fill/marching_cubes raise (caught,
\* lines 568-580), give an empty mesh, or give the closed surface of the
\* voxels, which _fit_mesh_to_bounds then scales (line 589, outside the try).
rebuild_watertight_single(mesh, voxel) ==
    IF mesh.faces = 0 THEN mesh
    ELSE IF voxel \in {"raises", "empty"} THEN mesh
    ELSE IF voxel = "fit_raises" THEN Raised
    ELSE Mesh(2 * mesh.faces, TRUE, "rebuilt")

\* Tiles along one axis: np.arange(min, max, chunk_size) plus the end.
tiles(extent, chunk_size) == (extent + chunk_size - 1) \div chunk_size

\* _rebuild_watertight_chunked: NoMesh stands for None. `chunks` of the tiles
\* gave a cropped mesh (the crop leaves the cut open); `repaired` says
\* whether _repair_mesh_topology closed the seams; `seal` is the outcome of
\* the voxel pass over the merged mesh; `concatenate` is the outcome of
\* trimesh.util.concatenate (line 651, outside any try).
rebuild_watertight_chunked(mesh, cfg, chunks, concatenate, repaired, seal) ==
    IF mesh.extent_x <= cfg.sfmesh_chunk_size_mm /\ mesh.extent_y <= cfg.sfmesh_chunk_size_mm
    THEN NoMesh
    ELSE IF chunks = 0 THEN NoMesh
    ELSE IF concatenate = "raises" THEN Raised
    ELSE LET merged == [mesh EXCEPT !.faces = 2 * chunks, !.watertight = repaired,
                                    !.origin = "chunks"]
         IN  IF ~merged.watertight
             THEN LET sealed == rebuild_watertight_single(merged, seal)
                  IN  IF sealed.origin = "raised" THEN Raised
                      ELSE IF sealed.faces > 0 THEN sealed ELSE merged
             ELSE merged

\* _rebuild_watertight_voxel
rebuild_watertight_voxel(mesh, cfg, voxel, chunks, concatenate, repaired, seal) ==
    LET chunked == rebuild_watertight_chunked(mesh, cfg, chunks, concatenate, repaired, seal)
    IN  IF mesh.faces = 0 THEN mesh
        ELSE IF cfg.sfmesh_chunked_watertight_enabled /\ chunked.origin # "none" THEN chunked
        ELSE rebuild_watertight_single(mesh, voxel)

EnConfigs ==
    [model_backend : {"sfmesh"}, sfmesh_quality_mode : {"fast", "auto", "watertight"},
     sfmesh_watertight_face_limit : {20}, sfmesh_chunked_watertight_enabled : BOOLEAN,
     sfmesh_chunk_size_mm : {8}]

\* An export: the engine is looked up by name with get_model_engine, or
\* SfMeshEngine.export is called on an engine object directly. The extruded
\* mesh is whatever the 2D geometry gives.
EnInit ==
    /\ \E cfg \in EnConfigs, name \in {"sfmesh", "SFMESH ", "trimesh", "cadquery", "unknown"},
          entry \in {"get_model_engine", "SfMeshEngine"},
          faces \in {12, 30}, watertight \in BOOLEAN, extent_x \in {6, 12} :
          /\ entry = "SfMeshEngine" => name = "sfmesh"
          /\ en = [pc |-> entry, name |-> name, cfg |-> cfg, engine |-> "none",
                   extruded |-> [faces |-> faces, watertight |-> watertight,
                                 origin |-> "extruded", extent_x |-> extent_x, extent_y |-> 6],
                   mesh |-> NoMesh, before_rebuild |-> NoMesh, attempted |-> FALSE,
                   error |-> "none"]
    /\ rx = Idle /\ ob = Idle /\ qf = Idle /\ gs = Idle /\ ex = Idle /\ vp = Idle /\ bb = Idle /\ sv = Idle /\ cf = Idle /\ un = Idle /\ cl = Idle

EnOthers == <<rx, ob, qf, gs, ex, vp, bb, sv, cf, un, cl>>

\* get_model_engine(config.model_backend)
EnGetModelEngine ==
    /\ en.pc = "get_model_engine"
    /\ LET engine == get_model_engine(en.name)
       IN  IF engine = "ValueError"
           THEN en' = [en EXCEPT !.pc = "failed", !.error = "ValueError: backend"]
           ELSE en' = [en EXCEPT !.pc = engine, !.engine = engine]
    /\ UNCHANGED EnOthers

\* CadQueryEngine.export
EnCadQueryExport ==
    /\ en.pc = "cadquery"
    /\ \/ en' = [en EXCEPT !.pc = "done"]
       \/ en' = [en EXCEPT !.pc = "failed", !.error = "export"]
    /\ UNCHANGED EnOthers

\* TrimeshEngine.export: extrusion, cleanup, translation, write, checks.
EnTrimeshExport ==
    /\ en.pc = "trimesh"
    /\ \/ en' = [en EXCEPT !.pc = "done", !.mesh = en.extruded]
       \/ en' = [en EXCEPT !.pc = "failed", !.mesh = en.extruded, !.error = "export"]
    /\ UNCHANGED EnOthers

\* SfMeshEngine.export, lines 136-160: the extrusion.
EnSfMeshExtrude ==
    /\ en.pc \in {"sfmesh", "SfMeshEngine"}
    /\ en' = [en EXCEPT !.pc = "rebuild", !.engine = "sfmesh", !.mesh = en.extruded]
    /\ UNCHANGED EnOthers

\* SfMeshEngine.export, lines 161-178: the watertight rebuild, if attempted.
\* The call at line 165 is not inside a try: what the rebuild lets escape
\* ends the export.
EnSfMeshRebuild ==
    /\ en.pc = "rebuild"
    /\ IF should_attempt_watertight(en.mesh, en.cfg)
       THEN \E voxel \in {"raises", "empty", "mesh", "fit_raises"}, repaired \in BOOLEAN,
               seal \in {"raises", "empty", "mesh", "fit_raises"},
               concatenate \in {"ok", "raises"},
               chunks \in 0..(tiles(en.mesh.extent_x, en.cfg.sfmesh_chunk_size_mm)
                              * tiles(en.mesh.extent_y, en.cfg.sfmesh_chunk_size_mm)) :
               LET rebuilt == rebuild_watertight_voxel(en.mesh, en.cfg, voxel, chunks,
                                                       concatenate, repaired, seal)
               IN  IF rebuilt.origin = "raised"
                   THEN en' = [en EXCEPT !.pc = "failed", !.attempted = TRUE,
                                         !.before_rebuild = en.mesh, !.error = "rebuild"]
                   ELSE en' = [en EXCEPT !.pc = "post", !.attempted = TRUE,
                                    !.before_rebuild = en.mesh,
                                    !.mesh = [en.mesh EXCEPT !.faces = rebuilt.faces,
                                                             !.watertight = rebuilt.watertight,
                                                             !.origin = rebuilt.origin]]
       ELSE en' = [en EXCEPT !.pc = "post"]
    /\ UNCHANGED EnOthers

\* SfMeshEngine.export, lines 180-231: decimation, cleanup, translation,
\* write and checks.
EnSfMeshFinish ==
    /\ en.pc = "post"
    /\ \/ en' = [en EXCEPT !.pc = "done"]
       \/ en' = [en EXCEPT !.pc = "failed", !.error = "export"]
    /\ UNCHANGED EnOthers

EnNext ==
    \/ EnGetModelEngine \/ EnCadQueryExport \/ EnTrimeshExport
    \/ EnSfMeshExtrude \/ EnSfMeshRebuild \/ EnSfMeshFinish

SpecEngine == EnInit /\ [][EnNext]_vars

\* ========================================================================
\* pipeline/engine.py -- _critical_hole_width_mm, _adaptive_voxel_pitch
\* ========================================================================
\* Lengths count 0.002 mm (0.08 mm = 40); board extents count millimetres.
\* A hole is the pair of the sides of its bounding box.

HolePool == {<<300, 500>>, <<60, 60>>, <<600, 600>>}

\* _critical_hole_width_mm: the least bounding-box side over the holes that
\* are no wider than max_width; 0 stands for None.
critical_hole_width_mm(holes, max_width_mm) ==
    LET widths == {Min2(h[1], h[2]) : h \in holes}
        critical == {w \in widths : w > 0 /\ w <= max_width_mm}
    IN  IF critical = {} THEN 0 ELSE MinOf(critical)

\* The checks on the pitch settings (tests/python/test_config.py).
validate_pitch(cfg) ==
    /\ cfg.sfmesh_voxel_pitch_mm > 0
    /\ cfg.sfmesh_adaptive_pitch_min_mm > 0
    /\ cfg.sfmesh_adaptive_pitch_max_mm > 0
    /\ cfg.sfmesh_adaptive_pitch_min_mm <= cfg.sfmesh_adaptive_pitch_max_mm
    /\ cfg.sfmesh_hole_protect_max_width_mm > 0
    /\ cfg.sfmesh_hole_pitch_divisor > 1

\* _adaptive_voxel_pitch; `longest` is the longest extent of the mesh.
adaptive_voxel_pitch(longest, cfg, critical_hole_width) ==
    LET base == cfg.sfmesh_voxel_pitch_mm
        scaled == IF longest > 180 THEN 3 * base
                  ELSE IF longest > 120 THEN (12 * base) \div 5
                  ELSE IF longest > 80 THEN 2 * base
                  ELSE IF longest > 50 THEN (8 * base) \div 5
                  ELSE base
        clipped == Min2(Max2(scaled, cfg.sfmesh_adaptive_pitch_min_mm),
                        cfg.sfmesh_adaptive_pitch_max_mm)
        cap == Max2(cfg.sfmesh_adaptive_pitch_min_mm,
                    critical_hole_width \div cfg.sfmesh_hole_pitch_divisor)
    IN  IF ~cfg.sfmesh_adaptive_pitch_enabled THEN base
        ELSE IF cfg.sfmesh_hole_protect_enabled /\ critical_hole_width # 0 /\ clipped > cap
        THEN cap
        ELSE clipped

VpConfigs ==
    [sfmesh_voxel_pitch_mm : {40, 120, 200}, sfmesh_adaptive_pitch_enabled : BOOLEAN,
     sfmesh_adaptive_pitch_min_mm : {10, 40}, sfmesh_adaptive_pitch_max_mm : {40, 120},
     sfmesh_hole_protect_enabled : BOOLEAN, sfmesh_hole_protect_max_width_mm : {400},
     sfmesh_hole_pitch_divisor : {2, 3}]

VpInit ==
    /\ \E cfg \in VpConfigs, holes \in SUBSET HolePool, longest \in {40, 60, 100, 150, 200} :
          /\ validate_pitch(cfg)
          /\ vp = [pc |-> "holes", cfg |-> cfg, holes |-> holes, longest |-> longest,
                   critical_hole_width |-> 0, pitch |-> 0]
    /\ rx = Idle /\ ob = Idle /\ qf = Idle /\ gs = Idle /\ ex = Idle /\ en = Idle /\ bb = Idle /\ sv = Idle /\ cf = Idle /\ un = Idle /\ cl = Idle

\* SfMeshEngine.export, line 161
VpCriticalHoleWidth ==
    /\ vp.pc = "holes"
    /\ vp' = [vp EXCEPT !.pc = "pitch",
                        !.critical_hole_width =
                            critical_hole_width_mm(vp.holes, vp.cfg.sfmesh_hole_protect_max_width_mm)]
    /\ UNCHANGED <<rx, ob, qf, gs, ex, en, bb, sv, cf, un, cl>>

\* SfMeshEngine.export, line 164
VpAdaptiveVoxelPitch ==
    /\ vp.pc = "pitch"
    /\ vp' = [vp EXCEPT !.pc = "done",
                        !.pitch = adaptive_voxel_pitch(vp.longest, vp.cfg, vp.critical_hole_width)]
    /\ UNCHANGED <<rx, ob, qf, gs, ex, en, bb, sv, cf, un, cl>>

VpNext == VpCriticalHoleWidth \/ VpAdaptiveVoxelPitch

SpecPitch == VpInit /\ [][VpNext]_vars

\* ========================================================================
\* ui_app.py -- BackendBridge.runJob, its worker thread, stopJob
\* ========================================================================
\* The slots runJob and stopJob run on the GUI thread, one at a time; the
\* worker runs on a thread of its own, and the CadQuery backend runs
\* generate_stencil in a child process. Every read and write of a field of
\* the bridge is a step, so the threads interleave between them.

\* Bounds: accepted runJob calls, stopJob calls that find a job running.
MaxJobs == 2

MaxStops == 2

\* An emitted signal (jobStatus, or the jobLog line of a stop request) with
\* the job it belongs to.
Emit(b, job, sig) == [b EXCEPT !.signals = Append(b.signals, [job |-> job, sig |-> sig])]

\* Process.is_alive()
is_alive(process) == process = "alive"

BbInit ==
    /\ \E backend \in {"trimesh", "sfmesh", "cadquery"} :
          bb = [job_running |-> FALSE, job_cancel_requested |-> FALSE,
                job_process |-> "None", process |-> "none", backend |-> backend,
                worker |-> "none", ui |-> "idle", jobs |-> 0, stops |-> 0, last_log |-> "none",
                stop_job |-> 0, stop_error |-> FALSE, job_error |-> "none", signals |-> <<>>]
    /\ rx = Idle /\ ob = Idle /\ qf = Idle /\ gs = Idle /\ ex = Idle /\ en = Idle /\ vp = Idle /\ sv = Idle /\ cf = Idle /\ un = Idle /\ cl = Idle

BbOthers == <<rx, ob, qf, gs, ex, en, vp, sv, cf, un, cl>>

\* Mutant: runJob without the test of _job_running.
BbRunJobUnguarded ==
    /\ bb.ui = "idle"
    /\ bb.jobs < MaxJobs
    /\ bb' = [bb EXCEPT !.job_running = TRUE, !.job_cancel_requested = FALSE,
                        !.worker = "start", !.jobs = bb.jobs + 1]
    /\ UNCHANGED BbOthers

\* runJob, lines 556-561 and 678: under the lock, refuse (a jobLog line, kept
\* in last_log) or take the job and start the worker thread.
BbRunJob ==
    /\ bb.ui = "idle"
    /\ \/ /\ bb.job_running
          /\ bb' = [bb EXCEPT !.last_log = "job_already_running"]
       \/ /\ ~bb.job_running
          /\ bb.jobs < MaxJobs
          /\ bb' = [bb EXCEPT !.job_running = TRUE, !.job_cancel_requested = FALSE,
                              !.worker = "start", !.jobs = bb.jobs + 1]
    /\ UNCHANGED BbOthers

\* worker, lines 564-591: jobStatus running, then the input directory and the
\* configuration, either of which can raise.
BbWorkerStart ==
    /\ bb.worker = "start"
    /\ \E raises \in BOOLEAN :
          bb' = Emit([bb EXCEPT !.worker = IF raises THEN "error"
                                           ELSE IF bb.backend = "cadquery" THEN "spawn"
                                           ELSE "generate",
                                !.job_error = IF raises THEN "ValueError" ELSE "none"],
                     bb.jobs, "running")
    /\ UNCHANGED BbOthers

\* lines 593-600: the child process is created, stored and started.
BbWorkerSpawn ==
    /\ bb.worker = "spawn"
    /\ bb' = [bb EXCEPT !.worker = "poll", !.job_process = "Process", !.process = "alive"]
    /\ UNCHANGED BbOthers

\* _run_generate_stencil_subprocess: generate_stencil returns or raises, the
\* result (a flag with None, or the error text) is put on the queue and the
\* child ends.
BbProcessExit ==
    /\ bb.process = "alive"
    /\ \E outcome \in {"ok", "failed"} : bb' = [bb EXCEPT !.process = outcome]
    /\ UNCHANGED BbOthers

\* lines 601-641: while the child is alive the cancel flag is looked at; when
\* it is no longer alive, the result decides. (A pass through the loop with
\* the child alive and no cancel request changes nothing.)
BbWorkerPoll ==
    /\ bb.worker = "poll"
    /\ IF is_alive(bb.process)
       THEN /\ bb.job_cancel_requested
            /\ bb' = [bb EXCEPT !.worker = "error", !.process = "killed",
                                !.job_error = "JobCanceledError"]
       ELSE bb' = [bb EXCEPT !.worker = IF bb.process = "ok" THEN "success" ELSE "error",
                             !.job_error = IF bb.process = "ok" THEN "none" ELSE "ValueError"]
    /\ UNCHANGED BbOthers

\* line 642: generate_stencil on the worker thread itself; it returns or
\* raises, and nothing in it looks at the cancel flag.
BbWorkerGenerate ==
    /\ bb.worker = "generate"
    /\ \E raises \in BOOLEAN :
          bb' = [bb EXCEPT !.worker = IF raises THEN "error" ELSE "success",
                           !.job_error = IF raises THEN "Exception" ELSE "none"]
    /\ UNCHANGED BbOthers

\* lines 644-657: jobStatus success and jobDone.
BbWorkerSuccess ==
    /\ bb.worker = "success"
    /\ bb' = Emit([bb EXCEPT !.worker = "finally"], bb.jobs, "success")
    /\ UNCHANGED BbOthers

\* lines 658-671: jobStatus error and jobError, for a cancel or any exception.
BbWorkerError ==
    /\ bb.worker = "error"
    /\ bb' = Emit([bb EXCEPT !.worker = "finally"], bb.jobs, "error")
    /\ UNCHANGED BbOthers

\* Mutant: a finally block that leaves the running flag set.
BbWorkerFinallyKeepsFlag ==
    /\ bb.worker = "finally"
    /\ bb' = [bb EXCEPT !.worker = "none", !.job_process = "None",
                        !.job_cancel_requested = FALSE]
    /\ UNCHANGED BbOthers

\* lines 672-677: the finally block, under the lock.
BbWorkerFinally ==
    /\ bb.worker = "finally"
    /\ bb' = [bb EXCEPT !.worker = "none", !.job_running = FALSE, !.job_process = "None",
                        !.job_cancel_requested = FALSE]
    /\ UNCHANGED BbOthers

\* stopJob, lines 713-715: the test of _job_running (no lock is taken); with
\* no job running, a jobLog line (kept in last_log).
BbStopJob ==
    /\ bb.ui = "idle"
    /\ IF bb.job_running
       THEN /\ bb.stops < MaxStops
            /\ bb' = [bb EXCEPT !.ui = "set_flag", !.stops = bb.stops + 1, !.stop_job = bb.jobs]
       ELSE bb' = [bb EXCEPT !.last_log = "no_running_job"]
    /\ UNCHANGED BbOthers

\* line 716
BbStopSetFlag ==
    /\ bb.ui = "set_flag"
    /\ bb' = [bb EXCEPT !.ui = "check_process", !.job_cancel_requested = TRUE]
    /\ UNCHANGED BbOthers

\* line 717, left operand: self._job_process is not None
BbStopCheckProcess ==
    /\ bb.ui = "check_process"
    /\ IF bb.job_process = "None"
       THEN bb' = Emit([bb EXCEPT !.ui = "idle"], bb.stop_job, "stop_requested_waiting")
       ELSE bb' = [bb EXCEPT !.ui = "is_alive"]
    /\ UNCHANGED BbOthers

\* line 717, right operand: self._job_process.is_alive(), a second read of
\* the field; on None it is an AttributeError.
BbStopIsAlive ==
    /\ bb.ui = "is_alive"
    /\ IF bb.job_process = "None"
       THEN bb' = [bb EXCEPT !.ui = "idle", !.stop_error = TRUE]
       ELSE IF is_alive(bb.process)
       THEN bb' = Emit([bb EXCEPT !.ui = "pid"], bb.stop_job, "stop_requested_terminating")
       ELSE bb' = Emit([bb EXCEPT !.ui = "idle"], bb.stop_job, "stop_requested_waiting")
    /\ UNCHANGED BbOthers

\* lines 719-733: self._job_process.pid, a third read, and taskkill, which
\* ends the child or fails.
BbStopTerminate ==
    /\ bb.ui = "pid"
    /\ IF bb.job_process = "None"
       THEN bb' = [bb EXCEPT !.ui = "idle", !.stop_error = TRUE]
       ELSE \E killed \in BOOLEAN :
               bb' = [bb EXCEPT !.ui = "idle",
                                !.process = IF killed /\ is_alive(bb.process)
                                            THEN "killed" ELSE bb.process]
    /\ UNCHANGED BbOthers

BbNext ==
    \/ BbRunJob \/ BbWorkerStart \/ BbWorkerSpawn \/ BbProcessExit \/ BbWorkerPoll
    \/ BbWorkerGenerate \/ BbWorkerSuccess \/ BbWorkerError \/ BbWorkerFinally
    \/ BbStopJob \/ BbStopSetFlag \/ BbStopCheckProcess \/ BbStopIsAlive \/ BbStopTerminate

SpecBridge == BbInit /\ [][BbNext]_vars

\* The worker thread and the child process are scheduled and
\* generate_stencil returns; the user's runJob and stopJob calls need not
\* happen.
BbWorkerStep ==
    \/ BbWorkerStart \/ BbWorkerSpawn \/ BbWorkerPoll \/ BbWorkerGenerate
    \/ BbWorkerSuccess \/ BbWorkerError \/ BbWorkerFinally

BbUiStep == BbStopSetFlag \/ BbStopCheckProcess \/ BbStopIsAlive \/ BbStopTerminate

SpecBridgeFair ==
    SpecBridge /\ WF_vars(BbWorkerStep) /\ WF_vars(BbProcessExit) /\ WF_vars(BbUiStep)

\* ========================================================================
\* geometry/service.py -- _load_layer and its two compatibility patches
\* ========================================================================
\* Two requests run generate_stencil on threads of one process. Each loads
\* its layers with _load_layer and then writes its output file. The process
\* has one builtins.open and one AMOutlinePrimitive.__init__; a function is a
\* record: the original one, or the wrapper made by a request.

Requests == {1, 2}

Original == [fn |-> "original", by |-> 0]

Compat(r) == [fn |-> "compat", by |-> r]

SvInit ==
    /\ \E layers \in [Requests -> {1, 2}], am_statements \in BOOLEAN :
          sv = [open |-> Original, init |-> Original, lock |-> [owner |-> 0, depth |-> 0],
                am_statements |-> am_statements,
                req |-> [r \in Requests |->
                            [pc |-> "load", layers |-> layers[r], original_open |-> Original,
                             original_init |-> Original, patched_init |-> FALSE, used |-> {}]]]
    /\ rx = Idle /\ ob = Idle /\ qf = Idle /\ gs = Idle /\ ex = Idle /\ en = Idle /\ vp = Idle /\ bb = Idle /\ cf = Idle /\ un = Idle /\ cl = Idle

SvOthers == <<rx, ob, qf, gs, ex, en, vp, bb, cf, un, cl>>

\* _legacy_open_mode_compat, lines 76-77: take the lock, remember
\* builtins.open.
SvEnterOpenCompat(r) ==
    /\ sv.req[r].pc = "load"
    /\ sv.lock.owner \in {0, r}
    /\ sv' = [sv EXCEPT !.lock = [owner |-> r, depth |-> sv.lock.depth + 1],
                        !.req[r].pc = "patch_open", !.req[r].original_open = sv.open]
    /\ UNCHANGED SvOthers

\* line 84: builtins.open = compat_open
SvPatchOpen(r) ==
    /\ sv.req[r].pc = "patch_open"
    /\ sv' = [sv EXCEPT !.open = Compat(r), !.req[r].pc = "patch_init"]
    /\ UNCHANGED SvOthers

\* _legacy_outline_primitive_compat, lines 95-115: the re-entrant lock, the
\* import, and the patch of AMOutlinePrimitive.__init__ if the import worked.
SvEnterPrimitiveCompat(r) ==
    /\ sv.req[r].pc = "patch_init"
    /\ sv.lock.owner \in {0, r}
    /\ sv' = [sv EXCEPT !.lock = [owner |-> r, depth |-> sv.lock.depth + 1],
                        !.init = IF sv.am_statements THEN Compat(r) ELSE sv.init,
                        !.req[r].original_init = sv.init,
                        !.req[r].patched_init = sv.am_statements,
                        !.req[r].pc = "load_layer"]
    /\ UNCHANGED SvOthers

\* _load_layer, line 54: load_layer(str(path)) opens the file with whatever
\* builtins.open is.
SvLoadLayer(r) ==
    /\ sv.req[r].pc = "load_layer"
    /\ sv' = [sv EXCEPT !.req[r].used = sv.req[r].used \cup {sv.open},
                        !.req[r].pc = "restore_init"]
    /\ UNCHANGED SvOthers

\* lines 116-120 (or 99-100): put __init__ back, leave the inner lock.
SvExitPrimitiveCompat(r) ==
    /\ sv.req[r].pc = "restore_init"
    /\ sv' = [sv EXCEPT !.init = IF sv.req[r].patched_init THEN sv.req[r].original_init
                                 ELSE sv.init,
                        !.lock = [owner |-> r, depth |-> sv.lock.depth - 1],
                        !.req[r].pc = "restore_open"]
    /\ UNCHANGED SvOthers

\* lines 85-89: put builtins.open back, release the lock.
SvExitOpenCompat(r) ==
    /\ sv.req[r].pc = "restore_open"
    /\ sv' = [sv EXCEPT !.open = sv.req[r].original_open,
                        !.lock = [owner |-> 0, depth |-> 0],
                        !.req[r].layers = sv.req[r].layers - 1,
                        !.req[r].pc = IF sv.req[r].layers > 1 THEN "load" ELSE "export"]
    /\ UNCHANGED SvOthers

\* core.py, line 289: mesh.export(output_path) opens the output file.
SvExport(r) ==
    /\ sv.req[r].pc = "export"
    /\ sv' = [sv EXCEPT !.req[r].used = sv.req[r].used \cup {sv.open},
                        !.req[r].pc = "done"]
    /\ UNCHANGED SvOthers

SvNext ==
    \E r \in Requests :
       \/ SvEnterOpenCompat(r) \/ SvPatchOpen(r) \/ SvEnterPrimitiveCompat(r)
       \/ SvLoadLayer(r) \/ SvExitPrimitiveCompat(r) \/ SvExitOpenCompat(r) \/ SvExport(r)

SpecService == SvInit /\ [][SvNext]_vars

\* ========================================================================
\* config.py -- StencilConfig.validate
\* ========================================================================
\* The tests of validate on thickness_mm, output_mode, model_backend,
\* sfmesh_quality_mode and sfmesh_voxel_pitch_mm, in the order of the code;
\* the other fields keep their defaults, which pass. The result is "ok" or
\* the message of the ValueError raised.
validate(cfg) ==
    IF cfg.thickness_mm <= 0 THEN "thickness_mm must be > 0"
    ELSE IF cfg.output_mode \notin {"holes_only", "solid_with_cutouts"}
    THEN "output_mode must be holes_only or solid_with_cutouts"
    ELSE IF cfg.model_backend \notin {"trimesh", "cadquery", "sfmesh"}
    THEN "model_backend must be trimesh, cadquery, or sfmesh"
    ELSE IF cfg.sfmesh_quality_mode \notin {"fast", "watertight"}
    THEN "sfmesh_quality_mode must be fast or watertight"
    ELSE IF cfg.sfmesh_voxel_pitch_mm <= 0 THEN "sfmesh_voxel_pitch_mm must be > 0"
    ELSE "ok"

\* The configurations validate is called on (lengths in 0.01 mm).
CfConfigs ==
    [thickness_mm : {0, 12}, output_mode : {"holes_only", "solid_with_cutouts", "bad_mode"},
     model_backend : {"trimesh", "cadquery", "sfmesh", "bad_backend"},
     sfmesh_quality_mode : {"fast", "auto", "watertight", "bad_mode", "FAST"},
     sfmesh_voxel_pitch_mm : {0, 8}]

CfInit ==
    /\ \E cfg \in CfConfigs : cf = [pc |-> "validate", config |-> cfg, result |-> "none"]
    /\ rx = Idle /\ ob = Idle /\ qf = Idle /\ gs = Idle /\ ex = Idle /\ en = Idle /\ vp = Idle /\ bb = Idle /\ sv = Idle /\ un = Idle /\ cl = Idle

CfValidate ==
    /\ cf.pc = "validate"
    /\ cf' = [cf EXCEPT !.pc = "done", !.result = validate(cf.config)]
    /\ UNCHANGED <<rx, ob, qf, gs, ex, en, vp, bb, sv, un, cl>>

SpecConfig == CfInit /\ [][CfValidate]_vars

\* ========================================================================
\* service.py / outline.py -- load_outline_geometry on a layer in inches
\* or in millimetres
\* ========================================================================
\* Configured tolerances are in micrometres. Lengths of a layer are in its
\* native unit: micrometres for a metric layer, mils (0.001 in) for a layer
\* in inches. An applied tolerance is a rational [num, den] of the native
\* unit, so that the division by 25.4 is exact.
Rat(n, d) == [num |-> n, den |-> d]

\* d <= r for an integer d and a rational r.
RatGeq(r, d) == d * r.den <= r.num

\* OutlineBuilder._close_tol_mm, 0.02 mm.
close_tol_mm == 20

\* _tol_in_units: zero for a non-positive tolerance, tol_mm / 25.4 for a
\* layer in inches, tol_mm otherwise.
tol_in_units(tol_mm, units) ==
    IF tol_mm <= 0 THEN Rat(0, 1)
    ELSE IF units = "inch" THEN Rat(tol_mm * 10, 254)
    ELSE Rat(tol_mm, 1)

\* _scale_to_mm: an empty geometry is returned as it is, a geometry in
\* inches is scaled by 25.4 (width in mils to width in micrometres).
scale_to_mm(geom, units) ==
    IF geom.width = 0 THEN geom
    ELSE IF units = "inch" THEN [geom EXCEPT !.width = (geom.width * 254) \div 10]
    ELSE geom

Tolerances == {"snap_eps", "arc_chord", "gap_bridge", "merge", "close"}

NoTolerance == [n \in Tolerances |-> Rat(0, 1)]

\* The layer read by _load_layer and the configured tolerances: the unit,
\* whether the layer holds a Region, the one gap between the endpoints of
\* its segments (0: none; never below the snap grid) and the width of the
\* outline, both in the native unit.
UnInit ==
    /\ \E units \in {"inch", "metric"}, strategy \in {"legacy", "robust_polygonize"},
          region \in BOOLEAN, gap \in {0, 2, 60}, width \in {100, 200},
          gap_bridge_mm \in {0, 50}, merge_tol_mm \in {0, 10}, snap_eps_mm \in {1, 2} :
          un = [pc |-> "build", units |-> units, outline_close_strategy |-> strategy,
                region |-> region, gap |-> gap, width |-> width,
                outline_snap_eps_mm |-> snap_eps_mm, outline_arc_max_chord_error_mm |-> 10,
                outline_gap_bridge_mm |-> gap_bridge_mm, outline_merge_tol_mm |-> merge_tol_mm,
                tol |-> NoTolerance, used |-> {}, bridged |-> FALSE,
                geom |-> [source |-> "none", width |-> 0]]
    /\ rx = Idle /\ ob = Idle /\ qf = Idle /\ gs = Idle /\ ex = Idle /\ en = Idle /\ vp = Idle /\ bb = Idle /\ sv = Idle /\ cf = Idle /\ cl = Idle

\* _outline_from_primitives, first part: a Region is the outline; else,
\* under robust_polygonize, the extractor runs with eps and arc error
\* converted by _tol_in_units and gap_bridge_mm taken from the
\* configuration as it is. The extractor bridges the gap when it is at most
\* cfg.gap_bridge_mm; polygonize succeeds on a closed loop, and any
\* exception leads to the legacy closing.
UnRobust ==
    /\ un.pc = "build"
    /\ IF un.region
       THEN un' = [un EXCEPT !.pc = "scale", !.geom = [source |-> "region", width |-> un.width]]
       ELSE IF un.outline_close_strategy = "robust_polygonize"
       THEN LET eps == tol_in_units(un.outline_snap_eps_mm, un.units)
                arc_err == tol_in_units(un.outline_arc_max_chord_error_mm, un.units)
                gap_bridge == Rat(un.outline_gap_bridge_mm, 1)
                tol == [un.tol EXCEPT !["snap_eps"] = eps, !["arc_chord"] = arc_err,
                                      !["gap_bridge"] = gap_bridge]
                used == IF un.outline_gap_bridge_mm > 0
                        THEN {"snap_eps", "arc_chord", "gap_bridge"}
                        ELSE {"snap_eps", "arc_chord"}
                bridged == /\ un.outline_gap_bridge_mm > 0
                           /\ un.gap > 0
                           /\ RatGeq(gap_bridge, un.gap)
            IN  IF un.gap = 0 \/ bridged
                THEN un' = [un EXCEPT !.pc = "scale", !.tol = tol, !.used = used,
                                      !.bridged = bridged,
                                      !.geom = [source |-> "robust", width |-> un.width]]
                ELSE un' = [un EXCEPT !.pc = "legacy", !.tol = tol, !.used = used]
       ELSE un' = [un EXCEPT !.pc = "legacy"]
    /\ UNCHANGED <<rx, ob, qf, gs, ex, en, vp, bb, sv, cf, cl>>

\* _outline_from_primitives, second part: merge and close tolerances
\* converted by _tol_in_units; the loop closes when the gap is within the
\* close tolerance, else the geometry of the primitives is returned.
UnLegacy ==
    /\ un.pc = "legacy"
    /\ LET merge_tol == tol_in_units(un.outline_merge_tol_mm, un.units)
           close_tol == tol_in_units(close_tol_mm, un.units)
           tol == [un.tol EXCEPT !["merge"] = merge_tol, !["close"] = close_tol]
           used == un.used \cup (IF merge_tol.num > 0 THEN {"merge", "close"} ELSE {"close"})
       IN  un' = [un EXCEPT !.pc = "scale", !.tol = tol, !.used = used,
                     !.geom = [source |-> IF RatGeq(close_tol, un.gap)
                                          THEN "loops" ELSE "primitives",
                               width |-> un.width]]
    /\ UNCHANGED <<rx, ob, qf, gs, ex, en, vp, bb, sv, cf, cl>>

\* load_outline_geometry: the geometry built in the native unit is scaled
\* to millimetres.
UnScaleToMm ==
    /\ un.pc = "scale"
    /\ un' = [un EXCEPT !.pc = "done", !.geom = scale_to_mm(un.geom, un.units)]
    /\ UNCHANGED <<rx, ob, qf, gs, ex, en, vp, bb, sv, cf, cl>>

UnNext == UnRobust \/ UnLegacy \/ UnScaleToMm

SpecUnits == UnInit /\ [][UnNext]_vars

\* ========================================================================
\* geometry/outline.py -- OutlineBuilder._build_closed_loops
\* ========================================================================
\* The junction-graph traversal over the lines of an outline layer. Points
\* lie on a grid coarser than the closing tolerance, so _cluster_point puts
\* two endpoints in one node exactly when they coincide: a node is a point.

\* Bound: the lines handed to one traversal.
MaxEdges == 4

PA == <<0, 0>>
PB == <<2, 0>>
PC == <<2, 2>>
PD == <<0, 2>>
PE == <<4, 0>>
PF == <<4, 2>>

\* The lines (coordinate lists): the sides of a square, its diagonal, a side
\* drawn backwards, a line that is a closed ring by itself, and a bent tail.
LinePool ==
    { <<PA, PB>>, <<PB, PC>>, <<PC, PD>>, <<PD, PA>>, <<PC, PA>>, <<PB, PA>>,
      <<PE, PF, PB, PE>>, <<PF, PB, PE>> }

\* edge = {"coords", "start": node of coords[0], "end": node of coords[-1]}
make_edge(coords) == [coords |-> coords, start |-> coords[1], end |-> coords[Len(coords)]]

\* _edge_dir, not normalised: the vector and its squared length; the zero
\* vector for a zero-length step.
edge_dir(edge, node_idx) ==
    LET n == Len(edge.coords)
        p1 == IF node_idx = edge.start THEN edge.coords[1] ELSE edge.coords[n]
        p2 == IF node_idx = edge.start THEN edge.coords[2] ELSE edge.coords[n - 1]
    IN  [dx |-> p2[1] - p1[1], dy |-> p2[2] - p1[2],
         len2 |-> (p2[1] - p1[1]) * (p2[1] - p1[1]) + (p2[2] - p1[2]) * (p2[2] - p1[2])]

\* n1 / sqrt(d1) > n2 / sqrt(d2), for d1, d2 > 0.
cos_greater(n1, d1, n2, d2) ==
    IF n1 >= 0 /\ n2 < 0 THEN TRUE
    ELSE IF n1 < 0 /\ n2 >= 0 THEN FALSE
    ELSE IF n1 >= 0 THEN n1 * n1 * d2 > n2 * n2 * d1
    ELSE n1 * n1 * d2 < n2 * n2 * d1

\* adjacency.get(node_idx, []) without the used edges, in edge order.
unused_candidates(edges, used, node_idx) ==
    {k \in DOMAIN edges : k \notin used /\ node_idx \in {edges[k].start, edges[k].end}}

\* _pick_next_edge: 0 for None; without a direction the first candidate,
\* else the first of those with the largest cosine to prev_dir (the least
\* angle = 1 - dot).
pick_next_edge(edges, used, node_idx, prev_dir) ==
    LET candidates == unused_candidates(edges, used, node_idx)
        dir(k) == edge_dir(edges[k], IF node_idx = edges[k].start THEN edges[k].start
                                     ELSE edges[k].end)
        dot(k) == prev_dir.dx * dir(k).dx + prev_dir.dy * dir(k).dy
        norm2(k) == IF dir(k).len2 = 0 THEN 1 ELSE dir(k).len2
        better(k, m) == cos_greater(dot(k), norm2(k), dot(m), norm2(m))
        best == {k \in candidates : \A m \in candidates : ~better(m, k)}
    IN  IF candidates = {} THEN 0
        ELSE IF prev_dir.len2 = 0 THEN MinOf(candidates)
        ELSE MinOf(best)

NoDir == [dx |-> 0, dy |-> 0, len2 |-> 0]

Reverse(s) == [k \in DOMAIN s |-> s[Len(s) + 1 - k]]

\* The call, before its edges are built.
ClInit ==
    /\ cl = [pc |-> "edges", edges |-> <<>>, used |-> {}, edge |-> 1, start |-> PA,
             current |-> PA, prev_dir |-> NoDir, path |-> <<>>, steps |-> 0,
             walked |-> {}, loops |-> <<>>, loop_edges |-> <<>>]
    /\ rx = Idle /\ ob = Idle /\ qf = Idle /\ gs = Idle /\ ex = Idle /\ en = Idle /\ vp = Idle /\ bb = Idle /\ sv = Idle /\ cf = Idle /\ un = Idle

ClOthers == <<rx, ob, qf, gs, ex, en, vp, bb, sv, cf, un>>

\* `for seg in segments`: one more line of the layer becomes an edge, not used.
ClAddEdge ==
    /\ cl.pc = "edges"
    /\ Len(cl.edges) < MaxEdges
    /\ \E line \in LinePool :
          /\ \A k \in DOMAIN cl.edges : cl.edges[k].coords # line
          /\ cl' = [cl EXCEPT !.edges = Append(cl.edges, make_edge(line))]
    /\ UNCHANGED ClOthers

\* The segments are exhausted: on to the walks.
ClEdgesBuilt ==
    /\ cl.pc = "edges"
    /\ cl' = [cl EXCEPT !.pc = "for"]
    /\ UNCHANGED ClOthers

\* `for edge in edges`: skip a used edge, or start a walk from it; after the
\* last edge the loops are returned.
ClForEdge ==
    /\ cl.pc = "for"
    /\ IF cl.edge > Len(cl.edges) THEN cl' = [cl EXCEPT !.pc = "done"]
       ELSE IF cl.edge \in cl.used THEN cl' = [cl EXCEPT !.edge = cl.edge + 1]
       ELSE LET edge == cl.edges[cl.edge]
            IN  cl' = [cl EXCEPT !.pc = "while", !.used = cl.used \cup {cl.edge},
                                 !.start = edge.start, !.current = edge.end,
                                 !.path = edge.coords, !.prev_dir = edge_dir(edge, edge.start),
                                 !.steps = 0, !.walked = {cl.edge}]
    /\ UNCHANGED ClOthers

\* One pass through `while True`: back at the start, or no edge to go on
\* with (the path is dropped), or one more edge and the step count.
ClWhile ==
    /\ cl.pc = "while"
    /\ \E next_idx \in {pick_next_edge(cl.edges, cl.used, cl.current, cl.prev_dir)} :
          IF cl.current = cl.start THEN cl' = [cl EXCEPT !.pc = "loop"]
          ELSE IF next_idx = 0 THEN cl' = [cl EXCEPT !.pc = "loop", !.path = <<>>]
          ELSE \E next_edge \in {cl.edges[next_idx]} :
               \E forward \in {cl.current = next_edge.start} :
               \E coords \in {IF forward THEN next_edge.coords ELSE Reverse(next_edge.coords)} :
                  cl' = [cl EXCEPT
                          !.pc = IF cl.steps + 1 > Len(cl.edges) THEN "loop" ELSE "while",
                          !.used = cl.used \cup {next_idx},
                          !.walked = cl.walked \cup {next_idx},
                          !.current = IF forward THEN next_edge.end ELSE next_edge.start,
                          !.prev_dir = edge_dir(next_edge, IF forward THEN next_edge.start
                                                           ELSE next_edge.end),
                          !.path = IF cl.steps + 1 > Len(cl.edges) THEN <<>>
                                   ELSE cl.path \o Tail(coords),
                          !.steps = cl.steps + 1]
    /\ UNCHANGED ClOthers

\* Mutant: the path is added as the walk left it, neither closed nor counted.
ClAppendLoopUnchecked ==
    /\ cl.pc = "loop"
    /\ IF cl.path # <<>>
       THEN cl' = [cl EXCEPT !.pc = "for", !.edge = cl.edge + 1,
                             !.loops = Append(cl.loops, cl.path),
                             !.loop_edges = Append(cl.loop_edges, cl.walked)]
       ELSE cl' = [cl EXCEPT !.pc = "for", !.edge = cl.edge + 1]
    /\ UNCHANGED ClOthers

\* After the walk: a path that is left is closed and, with at least four
\* points, added to the loops (loop_edges: the edges it was walked over).
ClAppendLoop ==
    /\ cl.pc = "loop"
    /\ LET closed == IF cl.path # <<>> /\ cl.path[1] # cl.path[Len(cl.path)]
                     THEN Append(cl.path, cl.path[1]) ELSE cl.path
       IN  IF Len(closed) >= 4
           THEN cl' = [cl EXCEPT !.pc = "for", !.edge = cl.edge + 1,
                                 !.loops = Append(cl.loops, closed),
                                 !.loop_edges = Append(cl.loop_edges, cl.walked)]
           ELSE cl' = [cl EXCEPT !.pc = "for", !.edge = cl.edge + 1]
    /\ UNCHANGED ClOthers

ClNext == ClAddEdge \/ ClEdgesBuilt \/ ClForEdge \/ ClWhile \/ ClAppendLoop

\* The traversal is one call on one thread: it keeps running.
SpecLoops == ClInit /\ [][ClNext]_vars /\ WF_vars(ClNext)

\* ------------------------------------------------------------------------
\* C2 -- gap bridging joins only mutually nearest endpoints within tolerance
\* ------------------------------------------------------------------------
RxEndpoints == segment_endpoints(rx.deduped)

RxDist2(i, j) == segment_length2(RxEndpoints[i], RxEndpoints[j])

\* Each of i, j is a nearest endpoint of the other.
RxMutuallyNearest(i, j) ==
    /\ i # j
    /\ \A k \in DOMAIN RxEndpoints \ {i} : RxDist2(i, k) >= RxDist2(i, j)
    /\ \A k \in DOMAIN RxEndpoints \ {j} : RxDist2(j, k) >= RxDist2(i, j)

\* Each of i, j is the only nearest endpoint of the other.
RxStrictlyMutuallyNearest(i, j) ==
    /\ i # j
    /\ \A k \in DOMAIN RxEndpoints \ {i, j} : RxDist2(i, k) > RxDist2(i, j)
    /\ \A k \in DOMAIN RxEndpoints \ {i, j} : RxDist2(j, k) > RxDist2(i, j)

RxEndpointPairs == {pair \in (DOMAIN RxEndpoints) \X (DOMAIN RxEndpoints) : pair[1] < pair[2]}

RxJoined(i, j) ==
    \/ <<RxEndpoints[i], RxEndpoints[j]>> \in Range(rx.bridged)
    \/ <<RxEndpoints[j], RxEndpoints[i]>> \in Range(rx.bridged)

\* C2: every synthetic segment joins two endpoints that are each the other's
\* nearest endpoint and lie within the gap tolerance of each other; with a
\* tolerance of 0.1 mm (4 units), two endpoints 0.05 mm (2 units) apart that
\* are each other's only nearest endpoint are joined (unless the link cap was
\* reached first), and no synthetic segment is 0.5 mm (20 units) long.
C2_BridgeOnlyMutualNearestWithinTol ==
    rx.pc = "bridged" =>
        /\ \A b \in Range(rx.bridged) :
              \E i, j \in DOMAIN RxEndpoints :
                 /\ RxEndpoints[i] = b[1]
                 /\ RxEndpoints[j] = b[2]
                 /\ RxMutuallyNearest(i, j)
                 /\ RxDist2(i, j) <= rx.gap_bridge_mm * rx.gap_bridge_mm
        /\ rx.gap_bridge_mm = 4 =>
              /\ \A i, j \in DOMAIN RxEndpoints :
                    (RxStrictlyMutuallyNearest(i, j) /\ RxDist2(i, j) = 2 * 2)
                       => (RxJoined(i, j) \/ Len(rx.bridged) >= rx.max_links)
              /\ \A b \in Range(rx.bridged) : segment_length2(b[1], b[2]) # 20 * 20

\* Witness: tolerance 0.1 mm, a 0.05 mm gap was joined and a mutually nearest
\* pair 0.5 mm apart was left open.
C2_Witness ==
    /\ rx.pc = "bridged"
    /\ rx.gap_bridge_mm = 4
    /\ \E i, j \in DOMAIN RxEndpoints :
          RxStrictlyMutuallyNearest(i, j) /\ RxDist2(i, j) = 2 * 2 /\ RxJoined(i, j)
    /\ \E i, j \in DOMAIN RxEndpoints :
          RxStrictlyMutuallyNearest(i, j) /\ RxDist2(i, j) = 20 * 20 /\ ~RxJoined(i, j)

\* ------------------------------------------------------------------------
\* C3 -- regenerate_qfn_paste returns its input unless the pads are detected
\* ------------------------------------------------------------------------
QfCandidates ==
    {i \in DOMAIN qf.polys :
        /\ 100 * qf.polys[i].area >= 85 * qf.polys[i].rect_area
        /\ 5 * qf.polys[i].long >= 6 * qf.polys[i].short
        /\ qf.polys[i].long <= 6 * qf.polys[i].short
        /\ qf.polys[i].short <= qfn_max_pad_width_mm}

\* C3: when regenerate_qfn_paste has returned, its result is the input
\* geometry itself unless at least 12 polygons pass the candidate filter
\* (rectangularity >= 0.85, long/short ratio in [1.2, 6.0], short side <=
\* qfn_max_pad_width_mm) and the detection score is at least
\* qfn_confidence_threshold.
C3_UnchangedUnlessDetected ==
    qf.pc = "done" =>
        (qf.result.kind # "input" =>
            /\ Cardinality(QfCandidates) >= 12
            /\ qf.qfn.sides # <<>>
            /\ qf.qfn.score >= qf.qfn_confidence_threshold)

\* Witness: 12 or more candidates were grouped into four sides but scored
\* below the threshold, and the input came back.
C3_Witness ==
    /\ qf.pc = "done"
    /\ Cardinality(QfCandidates) >= 12
    /\ qf.qfn.sides # <<>>
    /\ qf.qfn.score < qf.qfn_confidence_threshold
    /\ qf.result.kind = "input"

\* ------------------------------------------------------------------------
\* C4 -- polygons whose side ratio is outside [1.2, 6.0]
\* ------------------------------------------------------------------------
QfRectangular(i) == 100 * qf.polys[i].area >= 85 * qf.polys[i].rect_area

QfRatioInRange(i) ==
    /\ 5 * qf.polys[i].long >= 6 * qf.polys[i].short
    /\ qf.polys[i].long <= 6 * qf.polys[i].short

C6_SlotsKeepWeb ==
    (qf.pc = "done" /\ qf.result.kind = "regenerated") =>
        \A s \in DOMAIN qf.result.slots :
            LET slots == qf.result.slots[s]
                count == slots[1].count
            IN  /\ Len(slots) = (IF count <= 6 THEN 2 ELSE IF count <= 12 THEN 3 ELSE 4)
                /\ \A k \in DOMAIN slots :
                      /\ slots[k].width >= Fine * qf.qfn_min_feature_mm
                      /\ slots[k].length >= Fine * qf.qfn_min_feature_mm
                /\ \A k \in 1..(Len(slots) - 1) :
                      slots[k + 1].lo - slots[k].hi >= Fine * qf.qfn_min_feature_mm

\* ------------------------------------------------------------------------
\* C5 -- an exception inside QFN regeneration does not abort generation
\* ------------------------------------------------------------------------
\* C5: once QFN regeneration has raised, generate_stencil does not fail with
\* that exception: it goes on to the paste offset, the geometry the offset is
\* applied to is exactly the geometry that was passed to the regeneration,
\* and any failure that follows is one of a later stage.
C5_QfnExceptionAbsorbed ==
    gs.qfn = "raised" =>
        /\ gs.error # "Exception: qfn"
        /\ gs.pc # "qfn"
        /\ gs.pc = "offset" => gs.paste_geom = gs.loaded
        /\ gs.pc \notin {"offset"} => gs.offset_input = gs.loaded
        /\ gs.pc = "failed" =>
              gs.error \in {"ValueError: paste offset empty", "ValueError: outline",
                            "ImportError: cadquery", "ValueError: no solids",
                            "ValueError: no mesh", "ValueError: mesh empty",
                            "ValueError: file empty", "ValueError: validate STL"}

\* Witness: the regeneration raised, and the STL was exported from the
\* outline and the offset of the loaded paste geometry.
C5_Witness ==
    /\ gs.qfn = "raised"
    /\ gs.pc = "done"
    /\ gs.file = "faces"
    /\ gs.offset_input = gs.loaded
    /\ gs.outline_geom # NoGeom

\* ------------------------------------------------------------------------
\* C7 -- the top faces tile the polygon and stay out of its hole
\* ------------------------------------------------------------------------
\* The pieces covered by the top faces.
ExTop == UNION {Triangle[t].pieces : t \in ex.kept}

\* C7: in both extrusion routines every triangle kept for the top face is
\* wholly covered by the polygon, the top faces differ from the polygon by
\* less than 0.1 % of its area, and they do not reach into the hole.
C7_TopFacesTilePolygon ==
    ex.pc = "done" =>
        /\ \A t \in ex.kept : Triangle[t].pieces \subseteq Material
        /\ 1000 * (pieces_area(ExTop \ Material) + pieces_area(Material \ ExTop))
              < pieces_area(Material)
        /\ ExTop \cap Hole = {}

\* ------------------------------------------------------------------------
\* C8 -- the quality mode decides whether the rebuild is attempted
\* ------------------------------------------------------------------------
\* C8: when an export asked for by the name sfmesh has ended, on a non-empty
\* mesh within the face limit, the rebuild was attempted exactly as the
\* quality mode says: never for fast, always for watertight, and for auto
\* exactly when the extruded mesh was not watertight.
C8_QualityModeDecides ==
    (/\ en.pc \in {"done", "failed"}
     /\ lower_strip(en.name) = "sfmesh"
     /\ en.extruded.faces > 0
     /\ en.extruded.faces <= en.cfg.sfmesh_watertight_face_limit)
        => (en.attempted <=>
               \/ en.cfg.sfmesh_quality_mode = "watertight"
               \/ en.cfg.sfmesh_quality_mode = "auto" /\ ~en.extruded.watertight)

\* ------------------------------------------------------------------------
\* C9 -- the rebuild keeps a watertight mesh watertight
\* ------------------------------------------------------------------------
\* C9: in quality mode watertight, if the mesh was watertight before the
\* rebuild step, the mesh after the step is watertight.
C9_RebuildKeepsWatertight ==
    (/\ en.attempted
     /\ en.cfg.sfmesh_quality_mode = "watertight"
     /\ en.before_rebuild.watertight)
        => en.mesh.watertight

\* ------------------------------------------------------------------------
\* C10 -- hole protection caps the voxel pitch
\* ------------------------------------------------------------------------
\* C10: with hole protection enabled and a critical hole width w present,
\* the pitch handed to the rebuild is at most w / sfmesh_hole_pitch_divisor,
\* for every validated base pitch, board extent and pair of pitch bounds.
C10_PitchCappedByHole ==
    (/\ vp.pc = "done"
     /\ vp.cfg.sfmesh_hole_protect_enabled
     /\ vp.critical_hole_width # 0)
        => vp.pitch * vp.cfg.sfmesh_hole_pitch_divisor <= vp.critical_hole_width

\* ------------------------------------------------------------------------
\* C11 -- a failure inside the watertight rebuild never aborts the export
\* ------------------------------------------------------------------------
\* C11: whatever fails inside the rebuild (voxelization, fill, surface
\* extraction, chunk clipping or concatenation, seam sealing, fit-to-bounds),
\* the export does not end with that failure: it goes on to post-processing
\* with a non-empty mesh.
C11_RebuildFailureNeverAborts ==
    en.attempted => (/\ ~(en.pc = "failed" /\ en.error = "rebuild")
                     /\ en.mesh.faces > 0)

\* ------------------------------------------------------------------------
\* C12 -- the written mesh sits at the origin
\* ------------------------------------------------------------------------
\* C12: whenever an STL file has been written, on either backend, the mesh
\* it was written from has its minimum corner at the origin.
C12_WrittenMeshAtOrigin ==
    gs.file # "absent" => gs.mesh.at_origin

\* ------------------------------------------------------------------------
\* C13 -- an empty or faceless output file is an error on every backend
\* ------------------------------------------------------------------------
\* C13: an export whose written file has zero bytes, or reloads with zero
\* faces, ends with an error, whichever backend wrote it; it never ends
\* successfully.
C13_EmptyFileIsError ==
    gs.file \in {"zero bytes", "no faces"} => gs.pc = "failed"

\* ------------------------------------------------------------------------
\* C14 -- empty paste and empty mesh are fatal before any file is written
\* ------------------------------------------------------------------------
\* The paste layers have been loaded.
GsPasteLoaded ==
    /\ gs.pc \notin {"validate", "paste"}
    /\ gs.error \notin {"ValueError: config", "FileNotFoundError: paste"}

\* C14: if the paste layers load as nothing or as an empty geometry, or the
\* offset paste is empty, or the mesh is empty after extrusion and cleanup,
\* generate_stencil has failed and no STL file has been written.
C14_EmptyIsFatalBeforeWrite ==
    /\ (GsPasteLoaded /\ (gs.loaded = NoGeom \/ is_empty(gs.loaded)))
          => (gs.pc = "failed" /\ gs.file = "absent")
    /\ is_empty(gs.paste_geom) => (gs.pc = "failed" /\ gs.file = "absent")
    /\ (gs.pc \in {"write", "done", "failed"} /\ gs.mesh.faces = 0)
          => (gs.pc = "failed" /\ gs.file = "absent")

C14_Witness ==
    /\ gs.error = "ValueError: paste offset empty"
    /\ is_empty(gs.paste_geom)
    /\ ~is_empty(gs.loaded)
    /\ gs.file = "absent"

\* ------------------------------------------------------------------------
\* C15 -- without an outline the box around the paste is the outline
\* ------------------------------------------------------------------------
\* The outline stage has run and ended with the fallback outline.
GsFallbackUsed == gs.outline_geom.tag = "fallback"

\* The bounding box of the offset paste grown by outline_margin_mm.
GsMarginBox ==
    [lo |-> gs.paste_geom.lo - gs.config.outline_margin_mm,
     hi |-> gs.paste_geom.hi + gs.config.outline_margin_mm]

\* The 2D stencil has been computed in solid_with_cutouts mode.
GsCutoutStencil ==
    /\ gs.config.output_mode = "solid_with_cutouts"
    /\ gs.stencil_2d # NoGeom

\* The fallback outline is the margin box, and the loader is not called when
\* no file matched.
GsFallbackIsMarginBox ==
    /\ (gs.outline_geom # NoGeom /\ ~gs.outline_files)
          => (GsFallbackUsed /\ ~gs.outline_loader_called)
    /\ GsFallbackUsed
          => (/\ gs.outline_geom.lo = GsMarginBox.lo
              /\ gs.outline_geom.hi = GsMarginBox.hi
              /\ gs.outline_geom.solid)

BbStopLogs == {"stop_requested_waiting", "stop_requested_terminating"}

\* C17: on every backend, once stopJob has accepted a cancel request for a
\* running job, that job does not go on to emit jobStatus success.
C17_CancelEndsJob ==
    \A i, j \in DOMAIN bb.signals :
       (/\ i < j
        /\ bb.signals[i].sig \in BbStopLogs
        /\ bb.signals[j].sig = "success")
          => bb.signals[i].job # bb.signals[j].job

\* ------------------------------------------------------------------------
\* C18 -- concurrent requests share no mutable state
\* ------------------------------------------------------------------------
SvRunning(r) == sv.req[r].pc # "done"

\* C18: while a request is running no process-global object differs from
\* its original, and every function a request has used is the original one
\* or one the request made itself.
C18_NoSharedMutableState ==
    /\ (\E r \in Requests : SvRunning(r)) => (sv.open = Original /\ sv.init = Original)
    /\ \A r \in Requests : \A f \in sv.req[r].used : f.by \in {0, r}

\* ------------------------------------------------------------------------
\* C19 -- validate accepts fast, auto and watertight
\* ------------------------------------------------------------------------
\* The fields tested before and after the quality mode are valid.
CfOthersValid ==
    /\ cf.config.thickness_mm > 0
    /\ cf.config.output_mode \in {"holes_only", "solid_with_cutouts"}
    /\ cf.config.model_backend \in {"trimesh", "cadquery", "sfmesh"}
    /\ cf.config.sfmesh_voxel_pitch_mm > 0

\* C19: validate accepts each of the quality modes fast, auto and
\* watertight, and for any other value raises the ValueError
\* "sfmesh_quality_mode must be fast, auto, or watertight".
C19_QualityModesAccepted ==
    (cf.pc = "done" /\ CfOthersValid) =>
        IF cf.config.sfmesh_quality_mode \in {"fast", "auto", "watertight"}
        THEN cf.result = "ok"
        ELSE cf.result = "sfmesh_quality_mode must be fast, auto, or watertight"

\* ------------------------------------------------------------------------
\* C20 -- an outline layer in inches is reconstructed as if in millimetres
\* ------------------------------------------------------------------------
\* The configured value, in micrometres, of each tolerance.
UnConfigured(n) ==
    CASE n = "snap_eps" -> un.outline_snap_eps_mm
      [] n = "arc_chord" -> un.outline_arc_max_chord_error_mm
      [] n = "gap_bridge" -> un.outline_gap_bridge_mm
      [] n = "merge" -> un.outline_merge_tol_mm
      [] n = "close" -> close_tol_mm

\* C20: for an outline layer in inches, every tolerance the reconstruction
\* applied in the native unit (snap grid, arc chord error, merge, close,
\* gap-bridge distance) is the configured millimetre value divided by 25.4
\* (in mils: micrometres * 10 / 254), and the polygon returned is the native
\* one scaled by 25.4.
C20_InchTolerancesDividedBy254 ==
    (un.pc = "done" /\ un.units = "inch") =>
        /\ \A n \in un.used : un.tol[n].num * 254 = UnConfigured(n) * 10 * un.tol[n].den
        /\ un.geom.width * 10 = un.width * 254

\* ------------------------------------------------------------------------
\* C21 -- gap bridging acts only on unmatched endpoints
\* ------------------------------------------------------------------------
\* The genuine gaps: pairs of endpoints a positive distance apart, within
\* the tolerance, each the only nearest endpoint of the other.
RxGenuineGaps ==
    {pair \in RxEndpointPairs :
        /\ RxStrictlyMutuallyNearest(pair[1], pair[2])
        /\ RxDist2(pair[1], pair[2]) > 0
        /\ RxDist2(pair[1], pair[2]) <= rx.gap_bridge_mm * rx.gap_bridge_mm}

\* C21: no synthetic segment joins two endpoints that already coincide (no
\* zero-length synthetic segment), and when the genuine gaps are no more than
\* gap_bridge_max_links, every one of them is bridged.
C21_OnlyUnmatchedEndpointsBridged ==
    (rx.pc = "bridged" /\ rx.gap_bridge_mm > 0) =>
        /\ \A b \in Range(rx.bridged) : b[1] # b[2]
        /\ Cardinality(RxGenuineGaps) <= rx.max_links =>
              \A pair \in RxGenuineGaps : RxJoined(pair[1], pair[2])

\* ------------------------------------------------------------------------
\* C22 -- the robust pipeline selects its output by the fill rule
\* ------------------------------------------------------------------------
\* The candidates of the robust pipeline: the closed loops as filled
\* polygons, or the faces polygonize makes of them.
ObCandidateReadings == {ob.loops, polygonize_faces(ob.loops)}

\* C22: under robust_polygonize the outline returned is the largest-area
\* candidate when outline_fill_rule is legacy, and the union of the
\* even-depth candidates less the union of the odd-depth ones when it is
\* evenodd.
C22_RobustFollowsFillRule ==
    (ob.pc = "done" /\ ob.source = "robust") =>
        IF ob.outline_fill_rule = "legacy"
        THEN \E c \in ObCandidateReadings : ob.result = largest_polygon(c)
        ELSE \E c \in ObCandidateReadings : ob.result = outline_evenodd(c).result

\* ------------------------------------------------------------------------
\* C23 -- the legacy strategies run only when the robust one is disabled
\* ------------------------------------------------------------------------
\* C23: in a reconstruction with outline_close_strategy = robust_polygonize
\* neither legacy strategy (ordered-path stitcher, junction-graph traversal)
\* is ever executed, whatever the robust strategy's outcome.
C23_LegacyOnlyWhenRobustDisabled ==
    ob.outline_close_strategy = "robust_polygonize" => "legacy" \notin ob.ran

QfSidePadIds == Range(seq_field(concat_pads(qf.qfn.sides), "id"))

\* The sides whose web (row pitch - pad width, doubled) is at least the
\* minimum feature size.
QfWideWebSides ==
    {k \in DOMAIN qf.qfn.sides :
        /\ side_pitches(qf.qfn.sides[k]) # <<>>
        /\ median2(side_pitches(qf.qfn.sides[k]))
             - median2(seq_field(qf.qfn.sides[k].pads, "short")) >= 2 * qf.qfn_min_feature_mm}

\* The polygons regeneration has no business with: those that are neither a
\* pad of a selected side nor the centre pad, and the pads of wide-web sides.
QfUntouched ==
    {qf.polys[i].id : i \in {k \in DOMAIN qf.polys :
                               /\ qf.polys[k].id \notin QfSidePadIds
                               /\ qf.polys[k].id # qf.qfn.center_pad}}
    \cup UNION {Range(seq_field(qf.qfn.sides[k].pads, "id")) : k \in QfWideWebSides}

ExStandardTried == SelectSeq(ex.tried, LAMBDA s : s # "sfmesh constrained")

\* C26: extrude_polygon_solid tries constrained triangulation, then
\* unconstrained triangulation, then the general polygon extrusion, in that
\* order, each only after the one before it kept less than 99.5 % of the
\* polygon area, and a mesh built from kept triangles is returned only when
\* they cover at least 99.5 %.
C26_StrategiesInOrder ==
    ExStandardTried # <<>> =>
        /\ \E n \in 1..3 : ExStandardTried = SubSeq(<<"constrained", "unconstrained", "earcut">>, 1, n)
        /\ Len(ExStandardTried) >= 2 =>
              ~(coverage_ok(keep_covered(ex.cdt)) /\ ~ex.cdt_raises)
        /\ Len(ExStandardTried) = 3 => ~coverage_ok(keep_covered(ex.delaunay))
        /\ (ex.pc = "done" /\ ex.source = "triangles") => coverage_ok(ex.kept)

\* ------------------------------------------------------------------------
\* C27 -- at most one job is in progress
\* ------------------------------------------------------------------------
\* A step that starts a worker thread.
BbStartsWorker == bb'.jobs = bb.jobs + 1

\* A step of a runJob call that found a job running (its log line is new).
BbRefusedCall ==
    bb.last_log # "job_already_running" /\ bb'.last_log = "job_already_running"

\* C27: a worker thread exists only while the running flag is set, a worker
\* is started only when no job is running, and a runJob call that arrives
\* while a job is running starts no worker, emits no jobStatus signal and
\* leaves the running flag, the cancel flag and the process handle as they
\* are.
C27_AtMostOneJob ==
    /\ [](bb.worker # "none" => bb.job_running)
    /\ [][/\ BbStartsWorker => (~bb.job_running /\ bb.worker = "none")
          /\ BbRefusedCall =>
                /\ bb.job_running
                /\ ~BbStartsWorker
                /\ bb'.worker = bb.worker
                /\ bb'.job_running = bb.job_running
                /\ bb'.job_cancel_requested = bb.job_cancel_requested
                /\ bb'.job_process = bb.job_process
                /\ bb'.process = bb.process
                /\ bb'.signals = bb.signals]_vars

\* Witness: a runJob call was refused while the worker of the first job was
\* still at work.
C27_Witness ==
    /\ bb.last_log = "job_already_running"
    /\ bb.jobs = 1
    /\ bb.job_running
    /\ bb.worker \in {"poll", "generate"}

\* ------------------------------------------------------------------------
\* C28 -- every accepted job completes its lifecycle
\* ------------------------------------------------------------------------
\* The positions in the signal log of the signals `sigs` of job j.
BbSignalsOf(j, sigs) ==
    {i \in DOMAIN bb.signals : bb.signals[i].job = j /\ bb.signals[i].sig \in sigs}

\* Job j has ended: a later job was accepted or its worker is gone.
BbJobOver(j) == j < bb.jobs \/ (j = bb.jobs /\ bb.worker = "none")

BbBridgeIdle ==
    /\ bb.worker = "none"
    /\ ~bb.job_running
    /\ bb.job_process = "None"
    /\ ~bb.job_cancel_requested

\* C28: every accepted runJob emits jobStatus running at most once and
\* before any terminal status, emits at most one terminal status (success or
\* error), has emitted exactly one of each when it is over, and -- the
\* worker and the child being scheduled and generate_stencil returning --
\* does reach the end, where the bridge is idle again.
C28_JobCompletesLifecycle ==
    /\ [](\A j \in 1..bb.jobs :
             /\ Cardinality(BbSignalsOf(j, {"running"})) <= 1
             /\ Cardinality(BbSignalsOf(j, {"success", "error"})) <= 1
             /\ \A t \in BbSignalsOf(j, {"success", "error"}) :
                   \E r \in BbSignalsOf(j, {"running"}) : r < t
             /\ BbJobOver(j) => /\ Cardinality(BbSignalsOf(j, {"running"})) = 1
                                /\ Cardinality(BbSignalsOf(j, {"success", "error"})) = 1)
    /\ (bb.worker = "start") ~> BbBridgeIdle

\* Witness: the first job ran through running and success, the bridge went
\* idle, and a second runJob was accepted.
C28_Witness ==
    /\ bb.jobs = 2
    /\ bb.worker = "start"
    /\ \E r, t \in DOMAIN bb.signals :
          /\ r < t
          /\ bb.signals[r] = [job |-> 1, sig |-> "running"]
          /\ bb.signals[t] = [job |-> 1, sig |-> "success"]

\* ------------------------------------------------------------------------
\* C29 -- stopJob against the worker finishing concurrently
\* ------------------------------------------------------------------------
\* C29: in every interleaving of stopJob with the worker thread's end,
\* stopJob finishes without an error: it never calls is_alive() or reads pid
\* on a process handle that the worker has already cleared.
C29_StopJobSafe == ~bb.stop_error

\* ------------------------------------------------------------------------
\* C30 -- the junction-graph traversal terminates and returns closed loops
\* ------------------------------------------------------------------------
\* C30: the traversal ends for every segment set, no walk takes more than
\* len(edges) + 1 steps, no segment lies in two returned loops, and every
\* returned loop is closed (first point = last point) with at least 4 points.
C30_TraversalTerminates ==
    /\ [](/\ cl.steps <= Len(cl.edges) + 1
          /\ \A k \in DOMAIN cl.loops :
                /\ cl.loops[k][1] = cl.loops[k][Len(cl.loops[k])]
                /\ Len(cl.loops[k]) >= 4
          /\ \A k, m \in DOMAIN cl.loop_edges :
                k # m => cl.loop_edges[k] \cap cl.loop_edges[m] = {})
    /\ <>(cl.pc = "done")

\* Witness: the traversal has ended with two loops returned, one of them
\* walked over at least three segments.
C30_Witness ==
    /\ cl.pc = "done"
    /\ Len(cl.loops) = 2
    /\ \E k \in DOMAIN cl.loop_edges : Cardinality(cl.loop_edges[k]) >= 3

====
